---- MODULE Spec2Model ----
(***************************************************************************)
(* Speech-Pathology-App: the record store (services/storage.ts), the state *)
(* facade (context/AppContext.tsx), the trial statistics (utils/helpers)   *)
(* and the session recording flow (screens/NewSessionScreen.tsx).          *)
(***************************************************************************)
EXTENDS Integers, Sequences, FiniteSets, TLC

VARIABLES
    store,      \* AsyncStorage: the text held under each storage key
    mirror,     \* AppProvider state: clients, goals, sessions, settings
    last,       \* the last completed call: operation, arguments, result
    screen,     \* NewSessionScreen component state
    trialsArg,  \* argument of a direct calculateSessionStats call
    statsRet,   \* its result
    faults,     \* environment: the calls so far that met a rejected read or write
    pending     \* the facade calls in progress, suspended at an await

vars == <<store, mirror, last, screen, trialsArg, statsRet, faults, pending>>

(***************************************************************************)
(* Bounds of the model.                                                    *)
(***************************************************************************)
MaxLen == 4        \* longest trial sequence enumerated response by response
MaxBlock == 40     \* longest trial sequence of the form correct^a incorrect^b
MaxFaults == 1     \* most calls of one run that meet a rejected read or write
MaxTrials == 2     \* most trials recorded on the session screen
MaxCalls == 2      \* most facade calls in progress at the same time

(***************************************************************************)
(* IEEE-754 binary64 arithmetic, as far as helpers.ts line 38 uses it:     *)
(* a quotient of two small positive integers, a product with 100 and       *)
(* Math.round.  A positive double is [m, e]: m its 53 significand bits,    *)
(* most significant first (m[1] = 1), e the binary exponent of m[1].       *)
(***************************************************************************)
MantissaBits == 53

DZero == [m |-> <<>>, e |-> 0]

Zeros(n) == [i \in 1..n |-> 0]

\* Add one unit in the last place; carry = 1 when the significand wrapped.
IncBits(bits) ==
    LET n == Len(bits)
        zs == {i \in 1..n : bits[i] = 0}
    IN  IF zs = {}
        THEN [bits |-> <<1>> \o Zeros(n - 1), carry |-> 1]
        ELSE LET k == CHOOSE i \in zs : \A j \in zs : j <= i
             IN  [bits |-> [i \in 1..n |-> IF i < k THEN bits[i]
                                           ELSE IF i = k THEN 1 ELSE 0],
                  carry |-> 0]

\* Round an exact significand (leading 1, any length) to 53 bits,
\* round-to-nearest, ties to even.
RoundNearestEven(bits, e) ==
    IF Len(bits) <= MantissaBits
    THEN [m |-> bits \o Zeros(MantissaBits - Len(bits)), e |-> e]
    ELSE LET kept == SubSeq(bits, 1, MantissaBits)
             guard == bits[MantissaBits + 1]
             sticky == \E i \in (MantissaBits + 2)..Len(bits) : bits[i] = 1
             up == guard = 1 /\ (sticky \/ kept[MantissaBits] = 1)
             inc == IncBits(kept)
         IN  IF up THEN [m |-> inc.bits, e |-> e + inc.carry]
             ELSE [m |-> kept, e |-> e]

RECURSIVE Pow2Mod(_, _)
\* 2^i mod t, by repeated squaring.
Pow2Mod(i, t) ==
    IF i = 0 THEN 1 % t
    ELSE IF i % 2 = 0
         THEN LET h == Pow2Mod(i \div 2, t) IN (h * h) % t
         ELSE (2 * Pow2Mod(i - 1, t)) % t

\* Long division of r / t (0 <= r < t): the first n quotient bits after the
\* binary point and the remainder left.  The remainder after i steps is
\* r * 2^i mod t; the next bit is 1 when twice it reaches t.
DivBits(r, t, n) ==
    LET rem(i) == (r * Pow2Mod(i, t)) % t
    IN  [bits |-> [i \in 1..n |-> IF 2 * rem(i - 1) >= t THEN 1 ELSE 0],
         rem |-> rem(n)]

RECURSIVE Normalize(_, _, _)
\* Smallest k with c * 2^k >= t, for 1 <= c <= t.
Normalize(c, t, k) == IF c >= t THEN [num |-> c, k |-> k]
                      ELSE Normalize(2 * c, t, k + 1)

\* The double nearest to c / t, for integers 0 <= c <= t, t > 0.
DoubleDiv(c, t) ==
    IF c = 0 THEN DZero
    ELSE LET nz == Normalize(c, t, 0)
             q == DivBits(nz.num - t, t, MantissaBits - 1)
             bits == <<1>> \o q.bits
             up == \/ 2 * q.rem > t
                   \/ 2 * q.rem = t /\ bits[MantissaBits] = 1
             inc == IncBits(bits)
         IN  IF up THEN [m |-> inc.bits, e |-> inc.carry - nz.k]
             ELSE [m |-> bits, e |-> 0 - nz.k]

\* A significand as limbs of LimbBits bits, least significant limb first.
LimbBits == 13
LimbBase == 2 ^ LimbBits

RECURSIVE LimbValue(_, _, _)
\* Limb k of the bits, from its bit j up.
LimbValue(bits, k, j) ==
    LET p == LimbBits * k + j       \* position counted from the last bit
    IN  IF j = LimbBits \/ p >= Len(bits) THEN 0
        ELSE bits[Len(bits) - p] + 2 * LimbValue(bits, k, j + 1)

RECURSIVE MulLimbs(_, _, _, _, _)
\* The limbs of bits * k, limb by limb with the carry.
MulLimbs(bits, i, k, carry, acc) ==
    IF LimbBits * i >= Len(bits)
    THEN IF carry = 0 THEN acc ELSE Append(acc, carry)
    ELSE LET v == LimbValue(bits, i, 0) * k + carry
         IN  MulLimbs(bits, i + 1, k, v \div LimbBase, Append(acc, v % LimbBase))

\* The bits of a number given by its limbs, most significant bit first.
LimbsToBits(limbs) ==
    LET bit(p) == (limbs[p \div LimbBits + 1] \div (2 ^ (p % LimbBits))) % 2
        set == {p \in 0..(LimbBits * Len(limbs) - 1) : bit(p) = 1}
        top == CHOOSE p \in set : \A q \in set : q <= p
    IN  [i \in 1..(top + 1) |-> bit(top + 1 - i)]

\* The double nearest to x * k, for a double x and an integer 0 < k < 2^17.
DoubleMul(x, k) ==
    IF x = DZero THEN DZero
    ELSE LET p == LimbsToBits(MulLimbs(x.m, 0, k, 0, <<>>))
         IN  RoundNearestEven(p, x.e - (Len(x.m) - 1) + (Len(p) - 1))

RECURSIVE BitsToInt(_, _)
BitsToInt(bits, acc) ==
    IF bits = <<>> THEN acc ELSE BitsToInt(Tail(bits), 2 * acc + Head(bits))

\* Math.round of a double 0 <= x < 2^53: the nearest integer, a half going up.
MathRound(x) ==
    IF x = DZero THEN 0
    ELSE IF x.e < -1 THEN 0
    ELSE IF x.e = -1 THEN 1
    ELSE BitsToInt(SubSeq(x.m, 1, x.e + 1), 0)
         + (IF x.e + 2 <= Len(x.m) THEN x.m[x.e + 2] ELSE 0)

\* The bits of an integer 0 < n < 2^16, most significant first.
IntBits(n) ==
    LET len == CHOOSE l \in 1..16 : 2 ^ (l - 1) <= n /\ n < 2 ^ l
    IN  [i \in 1..len |-> (n \div (2 ^ (len - i))) % 2]

\* The double that an integer 0 <= n < 2^16 is.
DoubleOfInt(n) ==
    IF n = 0 THEN DZero
    ELSE RoundNearestEven(IntBits(n), Len(IntBits(n)) - 1)

\* x / 2: exact, the exponent goes down by one.
DoubleHalve(x) == IF x = DZero THEN DZero ELSE [x EXCEPT !.e = @ - 1]

\* Math.round((currentAccuracy + accuracy) / 2)
NewAccuracyOf(currentAccuracy, accuracy) ==
    MathRound(DoubleHalve(DoubleOfInt(currentAccuracy + accuracy)))

(***************************************************************************)
(* Domain model (types): a Trial is [goalId, response, sessionId].         *)
(***************************************************************************)
Responses == {"correct", "incorrect", "approximation", "no_response"}

\* trials.filter((t) => t.response === r).length
Count(trials, r) == Len(SelectSeq(trials, LAMBDA t : t.response = r))

\* Math.round((correctTrials / totalTrials) * 100)
AccuracyOf(correctTrials, totalTrials) ==
    MathRound(DoubleMul(DoubleDiv(correctTrials, totalTrials), 100))

\* Mutants of calculateSessionStats: a misspelt response literal, and a
\* count of the correct trials that stops at the first incorrect one.
StatsRecord(total, correct, incorrect, approximation, noResponse) ==
    [totalTrials |-> total,
     correctTrials |-> correct,
     incorrectTrials |-> incorrect,
     approximationTrials |-> approximation,
     noResponseTrials |-> noResponse,
     accuracy |-> IF total > 0 THEN AccuracyOf(correct, total) ELSE 0]

calculateSessionStats_misspelt(trials) ==
    StatsRecord(Len(trials),
                Count(trials, "correct"),
                Count(trials, "incorrect"),
                Count(trials, "approximation"),
                Count(trials, "no response"))

calculateSessionStats_streak(trials) ==
    LET stops == {i \in 1..Len(trials) : trials[i].response = "incorrect"}
        upto == IF stops = {} THEN Len(trials)
                ELSE CHOOSE i \in stops : \A j \in stops : i <= j
    IN  StatsRecord(Len(trials),
                    Count(SubSeq(trials, 1, upto), "correct"),
                    Count(trials, "incorrect"),
                    Count(trials, "approximation"),
                    Count(trials, "no_response"))

calculateSessionStats(trials) ==
    LET totalTrials == Len(trials)
        correctTrials == Count(trials, "correct")
        incorrectTrials == Count(trials, "incorrect")
        approximationTrials ==
            Count(trials, "approximation")
        noResponseTrials ==
            Count(trials, "no_response")
        accuracy == IF totalTrials > 0
                    THEN AccuracyOf(correctTrials, totalTrials) ELSE 0
    IN  [totalTrials |-> totalTrials,
         correctTrials |-> correctTrials,
         incorrectTrials |-> incorrectTrials,
         approximationTrials |-> approximationTrials,
         noResponseTrials |-> noResponseTrials,
         accuracy |-> accuracy]

(***************************************************************************)
(* Domain model.  Client [id, updatedAt]; Goal [id, clientId, status,      *)
(* currentAccuracy, targetAccuracy, updatedAt]; Session [id, clientId,     *)
(* goals, trials]; AppSettings [defaultSessionDuration,                    *)
(* defaultTargetAccuracy].  The fields no operation reads are left out.    *)
(***************************************************************************)
ClientIds == {"c1", "c2"}
GoalIds == {"g1", "g2"}
SessionIds == {"s1", "s2"}
\* Values of new Date().toISOString(): the time a caller builds an entity
\* at, and the later time the store stamps it at.
CallerTime == "T0"
StampTime == "T1"
Times == {CallerTime, StampTime}
StampTimes == {StampTime}
Statuses == {"active", "achieved", "discontinued"}

STORAGE_KEYS == {"clients", "goals", "sessions", "settings"}

DefaultSessionDuration == 30
DefaultTargetAccuracy == 80

DEFAULT_SETTINGS ==
    [defaultSessionDuration |-> DefaultSessionDuration,
     defaultTargetAccuracy |-> DefaultTargetAccuracy]

(***************************************************************************)
(* AsyncStorage and JSON.  A stored text is [kind, value]: kind "json" for *)
(* the text JSON.stringify made of value, "garbage" for a text JSON.parse  *)
(* rejects, "absent" for a key that holds nothing.                         *)
(***************************************************************************)
EmptyValue(key) == IF key = "settings" THEN DEFAULT_SETTINGS ELSE <<>>

Absent(key) == [kind |-> "absent", value |-> EmptyValue(key)]

JSONstringify(v) == [kind |-> "json", value |-> v]

\* JSON.parse: ok = FALSE stands for the SyntaxError it throws.
JSONparse(text) == [ok |-> text.kind = "json", value |-> text.value]

\* A value that may be null: [null, value].
Null(key) == [null |-> TRUE, value |-> EmptyValue(key)]
Some(v) == [null |-> FALSE, value |-> v]

\* `x || d`
OrElse(x, d) == IF x.null THEN d ELSE x.value

\* rf: the keys whose AsyncStorage.getItem rejects during this call.
getItem(st, key, rf) ==
    IF key \in rf THEN Null(key)
    ELSE IF st[key].kind = "absent" THEN Null(key)
    ELSE LET p == JSONparse(st[key])
         IN  IF p.ok THEN Some(p.value) ELSE Null(key)

\* setItem without the catch's `return false`.
setItem_reportsTrue(st, key, value, wf) ==
    IF key \in wf THEN [st |-> st, ret |-> TRUE]
    ELSE [st |-> [st EXCEPT ![key] = JSONstringify(value)], ret |-> TRUE]

\* wf: the keys whose AsyncStorage.setItem rejects during this call.
setItem(st, key, value, wf) ==
    IF key \in wf THEN [st |-> st, ret |-> FALSE]
    ELSE [st |-> [st EXCEPT ![key] = JSONstringify(value)], ret |-> TRUE]

\* Array.prototype.findIndex on the id; 0 stands for -1.
FindIndex(s, id) ==
    IF \E i \in 1..Len(s) : s[i].id = id
    THEN CHOOSE i \in 1..Len(s) :
            s[i].id = id /\ \A j \in 1..(i - 1) : s[j].id # id
    ELSE 0

Stamp(entity, now) == [entity EXCEPT !.updatedAt = now]

(***************************************************************************)
(* ClientStorage                                                           *)
(***************************************************************************)
ClientStorage_getAll(st, rf) == OrElse(getItem(st, "clients", rf), <<>>)

\* ClientStorage.save without the findIndex branch: the entity is pushed.
ClientStorage_save_push(st, client, now, rf, wf) ==
    setItem(st, "clients", Append(ClientStorage_getAll(st, rf), client), wf)

ClientStorage_save(st, client, now, rf, wf) ==
    LET clients == ClientStorage_getAll(st, rf)
        existingIndex == FindIndex(clients, client.id)
    IN  setItem(st, "clients",
                IF existingIndex > 0
                THEN [clients EXCEPT ![existingIndex] = Stamp(client, now)]
                ELSE Append(clients, client),
                wf)

(***************************************************************************)
(* GoalStorage                                                             *)
(***************************************************************************)
GoalStorage_getAll(st, rf) == OrElse(getItem(st, "goals", rf), <<>>)

GoalStorage_getByClientId(st, clientId, rf) ==
    SelectSeq(GoalStorage_getAll(st, rf), LAMBDA g : g.clientId = clientId)

\* getActiveByClientId without the status filter.
GoalStorage_getActiveByClientId_anyStatus(st, clientId, rf) ==
    GoalStorage_getByClientId(st, clientId, rf)

GoalStorage_getActiveByClientId(st, clientId, rf) ==
    SelectSeq(GoalStorage_getByClientId(st, clientId, rf),
              LAMBDA g : g.status = "active")

GoalStorage_save(st, goal, now, rf, wf) ==
    LET goals == GoalStorage_getAll(st, rf)
        existingIndex == FindIndex(goals, goal.id)
    IN  setItem(st, "goals",
                IF existingIndex > 0
                THEN [goals EXCEPT ![existingIndex] = Stamp(goal, now)]
                ELSE Append(goals, goal),
                wf)

\* GoalStorage.delete that also drops the sessions that list the goal.
GoalStorage_delete_withSessions(st, id, rf, wf) ==
    LET r == setItem(st, "goals",
                     SelectSeq(GoalStorage_getAll(st, rf), LAMBDA g : g.id # id),
                     wf)
        kept == SelectSeq(OrElse(getItem(st, "sessions", rf), <<>>),
                          LAMBDA x : \A i \in 1..Len(x.goals) : x.goals[i] # id)
    IN  [st |-> setItem(r.st, "sessions", kept, {}).st, ret |-> r.ret]

GoalStorage_delete(st, id, rf, wf) ==
    setItem(st, "goals",
            SelectSeq(GoalStorage_getAll(st, rf), LAMBDA g : g.id # id), wf)

GoalStorage_deleteByClientId(st, clientId, rf, wf) ==
    setItem(st, "goals",
            SelectSeq(GoalStorage_getAll(st, rf),
                      LAMBDA g : g.clientId # clientId),
            wf)

(***************************************************************************)
(* SessionStorage                                                          *)
(***************************************************************************)
SessionStorage_getAll(st, rf) == OrElse(getItem(st, "sessions", rf), <<>>)

SessionStorage_save(st, session, rf, wf) ==
    LET sessions == SessionStorage_getAll(st, rf)
        existingIndex == FindIndex(sessions, session.id)
    IN  setItem(st, "sessions",
                IF existingIndex > 0
                THEN [sessions EXCEPT ![existingIndex] = session]
                ELSE Append(sessions, session),
                wf)

SessionStorage_delete(st, id, rf, wf) ==
    setItem(st, "sessions",
            SelectSeq(SessionStorage_getAll(st, rf), LAMBDA s : s.id # id),
            wf)

SessionStorage_deleteByClientId(st, clientId, rf, wf) ==
    setItem(st, "sessions",
            SelectSeq(SessionStorage_getAll(st, rf),
                      LAMBDA s : s.clientId # clientId),
            wf)

\* ClientStorage.delete: the cascade's two results are dropped; the result
\* is that of the write of the clients document.
ClientStorage_delete(st, id, rf, wf) ==
    LET clients == ClientStorage_getAll(st, rf)
        filtered == SelectSeq(clients, LAMBDA c : c.id # id)
        afterGoals == GoalStorage_deleteByClientId(st, id, rf, wf).st
        afterSessions ==
            SessionStorage_deleteByClientId(afterGoals, id, rf, wf).st
    IN  setItem(afterSessions, "clients", filtered, wf)

(***************************************************************************)
(* SettingsStorage                                                         *)
(***************************************************************************)
\* SettingsStorage.get with no default for a missing document.
SettingsStorage_get_noDefault(st, rf) ==
    OrElse(getItem(st, "settings", rf),
           [DEFAULT_SETTINGS EXCEPT !.defaultTargetAccuracy = 0])

SettingsStorage_get(st, rf) ==
    OrElse(getItem(st, "settings", rf), DEFAULT_SETTINGS)

SettingsStorage_save(st, settings, wf) == setItem(st, "settings", settings, wf)

SettingsStorage_reset(st, wf) == setItem(st, "settings", DEFAULT_SETTINGS, wf)

(***************************************************************************)
(* Backup: exportAllData, importData, clearAllData.  The parsed backup is  *)
(* a record of optional fields, [present, value] each.                     *)
(***************************************************************************)
Field(v) == [present |-> TRUE, value |-> v]
NoField(key) == [present |-> FALSE, value |-> EmptyValue(key)]

\* exportAllData that leaves the sessions out of the backup.
exportAllData_noSessions(st, now, rf) ==
    JSONstringify(
        [exportDate |-> now,
         clients |-> Field(ClientStorage_getAll(st, rf)),
         goals |-> Field(GoalStorage_getAll(st, rf)),
         sessions |-> Field(<<>>),
         settings |-> Field(SettingsStorage_get(st, rf))])

exportAllData(st, now, rf) ==
    JSONstringify(
        [exportDate |-> now,
         clients |-> Field(ClientStorage_getAll(st, rf)),
         goals |-> Field(GoalStorage_getAll(st, rf)),
         sessions |-> Field(SessionStorage_getAll(st, rf)),
         settings |-> Field(SettingsStorage_get(st, rf))])

\* ImportKey that appends the document's records to those persisted.
ImportKey_merge(st, data, key, wf) ==
    IF ~data[key].present THEN st
    ELSE IF key = "settings" THEN setItem(st, key, data[key].value, wf).st
    ELSE setItem(st, key, OrElse(getItem(st, key, {}), <<>>) \o data[key].value,
                 wf).st

\* ImportKey without the `if (data.key)` test.
ImportKey_unguarded(st, data, key, wf) ==
    setItem(st, key, data[key].value, wf).st

\* `if (data.key) await setItem(KEY, data.key)`: arrays and objects are
\* truthy, a missing key is undefined; the write's result is dropped.
ImportKey(st, data, key, wf) ==
    IF data[key].present THEN setItem(st, key, data[key].value, wf).st ELSE st

\* importData without the catch: an unparseable text counts as a document
\* without keys.
importData_noCatch(st, jsonString, wf) ==
    LET p == JSONparse(jsonString)
    IN  IF ~p.ok THEN [st |-> st, ret |-> TRUE]
        ELSE LET s1 == ImportKey(st, p.value, "clients", wf)
                 s2 == ImportKey(s1, p.value, "goals", wf)
                 s3 == ImportKey(s2, p.value, "sessions", wf)
                 s4 == ImportKey(s3, p.value, "settings", wf)
             IN  [st |-> s4, ret |-> TRUE]

importData(st, jsonString, wf) ==
    LET p == JSONparse(jsonString)
    IN  IF ~p.ok THEN [st |-> st, ret |-> FALSE]
        ELSE LET s1 == ImportKey(st, p.value, "clients", wf)
                 s2 == ImportKey(s1, p.value, "goals", wf)
                 s3 == ImportKey(s2, p.value, "sessions", wf)
                 s4 == ImportKey(s3, p.value, "settings", wf)
             IN  [st |-> s4, ret |-> TRUE]

\* AsyncStorage.multiRemove of the four keys; rejected when fails is TRUE.
clearAllData(st, fails) ==
    IF fails THEN [st |-> st, ret |-> FALSE]
    ELSE [st |-> [k \in STORAGE_KEYS |-> Absent(k)], ret |-> TRUE]

(***************************************************************************)
(* State facade (AppProvider).                                             *)
(***************************************************************************)
InitialMirror ==
    [clients |-> <<>>, goals |-> <<>>, sessions |-> <<>>,
     settings |-> DEFAULT_SETTINGS, isLoading |-> TRUE]

\* prev.map((x) => (x.id === entity.id ? entity : x))
MapReplace(prev, entity) ==
    [i \in 1..Len(prev) |-> IF prev[i].id = entity.id THEN entity ELSE prev[i]]

\* loadData: Promise.all of the four reads, then the four setters.
loadData(st, rf) ==
    [clients |-> ClientStorage_getAll(st, rf),
     goals |-> GoalStorage_getAll(st, rf),
     sessions |-> SessionStorage_getAll(st, rf),
     settings |-> SettingsStorage_get(st, rf),
     isLoading |-> FALSE]

getGoal(m, id) ==
    LET i == FindIndex(m.goals, id)
    IN  IF i > 0 THEN Some(m.goals[i])
        ELSE [null |-> TRUE,
              value |-> [id |-> id, clientId |-> "", status |-> "",
                         currentAccuracy |-> 0, targetAccuracy |-> 0,
                         updatedAt |-> ""]]

getActiveGoalsByClient(m, clientId) ==
    SelectSeq(m.goals, LAMBDA g : g.clientId = clientId /\ g.status = "active")

(***************************************************************************)
(* The record of the last completed call.                                  *)
(***************************************************************************)
EmptyData ==
    [exportDate |-> "", clients |-> NoField("clients"),
     goals |-> NoField("goals"), sessions |-> NoField("sessions"),
     settings |-> NoField("settings")]

NoText == [kind |-> "absent", value |-> EmptyData]

\* The entity argument of a call that has none.
NoArg == [id |-> ""]

\* op, id and arg are the call and its arguments, ret its result, rok and
\* wok whether none of its reads and none of its writes was rejected, goals
\* and text the value it returned.  twice: the call saved the entity that
\* the call before it had saved, both with success.  roundTrip: the call
\* imported the text that the call before it had exported.  rejected: the
\* keys whose write was rejected during the call.
Call(op, id, ret, rf, wf) ==
    [op |-> op, id |-> id, ret |-> ret, rok |-> rf = {}, wok |-> wf = {},
     goals |-> <<>>, text |-> NoText, arg |-> NoArg, twice |-> FALSE,
     roundTrip |-> FALSE, rejected |-> wf]

NoCall == Call("none", "", TRUE, {}, {})

(***************************************************************************)
(* Inputs of the calls.                                                    *)
(***************************************************************************)
Client(id) == [id |-> id, updatedAt |-> CallerTime]

Goal(id, clientId, status, currentAccuracy, targetAccuracy) ==
    [id |-> id, clientId |-> clientId, status |-> status,
     currentAccuracy |-> currentAccuracy, targetAccuracy |-> targetAccuracy,
     updatedAt |-> CallerTime]

Trial(goalId, response, sessionId) ==
    [goalId |-> goalId, response |-> response, sessionId |-> sessionId]

Session(id, clientId, goals, trials) ==
    [id |-> id, clientId |-> clientId, goals |-> goals, trials |-> trials]

ClientInputs == {Client(id) : id \in ClientIds}

\* The client a record of the given id belongs to, where the owner is fixed.
OwnerOf(id) == IF id \in {"g1", "s1"} THEN "c1" ELSE "c2"

\* Goals of a fixed owner: g1 of client c1, g2 of client c2.
OwnedGoalInputs ==
    {Goal(id, OwnerOf(id), status, 60, 80) :
        id \in GoalIds, status \in {"active", "discontinued"}}

\* Goals of any owner and status.
GoalInputs ==
    {Goal(id, c, status, 60, 80) :
        id \in GoalIds, c \in ClientIds, status \in Statuses}

\* Session s1 is a session of client c1, s2 one of client c2.
GoalOfSession(id) == IF id = "s1" THEN "g1" ELSE "g2"

SessionInputs ==
    {Session(id, OwnerOf(id), <<GoalOfSession(id)>>,
             <<Trial(GoalOfSession(id), "correct", id)>>) :
        id \in SessionIds}

CustomSettings == [DEFAULT_SETTINGS EXCEPT !.defaultTargetAccuracy = 90]

SettingsInputs == {DEFAULT_SETTINGS, CustomSettings}

Ids(s) == {s[i].id : i \in 1..Len(s)}

\* generateId() that may return an id in use.
Fresh_reused(id, key) == TRUE

\* generateId(): an id no record of the collection carries.
Fresh(id, key) ==
    /\ id \notin Ids(mirror[key])
    /\ id \notin Ids(store[key].value)

(***************************************************************************)
(* Facade mutations: the storage call, then the mirror on success.         *)
(***************************************************************************)
\* The environment rejects the I/O of at most MaxFaults calls.
Charge(rf, wf) ==
    /\ (rf \cup wf # {} => faults < MaxFaults)
    /\ faults' = IF rf \cup wf # {} THEN faults + 1 ELSE faults

\* A facade mutation that applies the change to its state whatever the
\* store returned.
Mutation_unconditional(op, id, r, rf, wf, key, next, arg) ==
    /\ Charge(rf, wf)
    /\ store' = r.st
    /\ mirror' = [mirror EXCEPT ![key] = next]
    /\ last' = [Call(op, id, r.ret, rf, wf) EXCEPT
                  !.arg = arg,
                  !.twice = arg # NoArg /\ last.arg = arg /\ last.ret /\ r.ret]
    /\ UNCHANGED <<screen, trialsArg, statsRet, pending>>

Mutation(op, id, r, rf, wf, key, next, arg) ==
    /\ Charge(rf, wf)
    /\ store' = r.st
    /\ mirror' = IF r.ret THEN [mirror EXCEPT ![key] = next] ELSE mirror
    /\ last' = [Call(op, id, r.ret, rf, wf) EXCEPT
                  !.arg = arg,
                  !.twice = arg # NoArg /\ last.arg = arg /\ last.ret /\ r.ret]
    /\ UNCHANGED <<screen, trialsArg, statsRet, pending>>

addClient(client, now, rf, wf) ==
    Mutation("addClient", client.id,
             ClientStorage_save(store, client, now, rf, wf), rf, wf,
             "clients", Append(mirror.clients, client), client)

updateClient(client, now, rf, wf) ==
    Mutation("updateClient", client.id,
             ClientStorage_save(store, client, now, rf, wf), rf, wf,
             "clients", MapReplace(mirror.clients, client), client)

deleteClient(id, rf, wf) ==
    LET r == ClientStorage_delete(store, id, rf, wf)
    IN  /\ Charge(rf, wf)
        /\ store' = r.st
        /\ mirror' =
             IF r.ret
             THEN [mirror EXCEPT
                     !.clients = SelectSeq(@, LAMBDA c : c.id # id),
                     !.goals = SelectSeq(@, LAMBDA g : g.clientId # id),
                     !.sessions = SelectSeq(@, LAMBDA x : x.clientId # id)]
             ELSE mirror
        /\ last' = Call("deleteClient", id, r.ret, rf, wf)
        /\ UNCHANGED <<screen, trialsArg, statsRet, pending>>

addGoal(goal, now, rf, wf) ==
    Mutation("addGoal", goal.id, GoalStorage_save(store, goal, now, rf, wf),
             rf, wf, "goals", Append(mirror.goals, goal), goal)

updateGoal(goal, now, rf, wf) ==
    Mutation("updateGoal", goal.id, GoalStorage_save(store, goal, now, rf, wf),
             rf, wf, "goals", MapReplace(mirror.goals, goal), goal)

deleteGoal(id, rf, wf) ==
    Mutation("deleteGoal", id, GoalStorage_delete(store, id, rf, wf), rf, wf,
             "goals", SelectSeq(mirror.goals, LAMBDA g : g.id # id), NoArg)

addSession(session, rf, wf) ==
    Mutation("addSession", session.id,
             SessionStorage_save(store, session, rf, wf), rf, wf,
             "sessions", Append(mirror.sessions, session), session)

updateSession(session, rf, wf) ==
    Mutation("updateSession", session.id,
             SessionStorage_save(store, session, rf, wf), rf, wf,
             "sessions", MapReplace(mirror.sessions, session), session)

deleteSession(id, rf, wf) ==
    Mutation("deleteSession", id, SessionStorage_delete(store, id, rf, wf),
             rf, wf, "sessions",
             SelectSeq(mirror.sessions, LAMBDA x : x.id # id), NoArg)

updateSettings(newSettings, wf) ==
    Mutation("updateSettings", "",
             SettingsStorage_save(store, newSettings, wf), {}, wf,
             "settings", newSettings, NoArg)

refreshData(rf) ==
    /\ Charge(rf, {})
    /\ mirror' = loadData(store, rf)
    /\ last' = Call("refreshData", "", TRUE, rf, {})
    /\ UNCHANGED <<store, screen, trialsArg, statsRet, pending>>

(***************************************************************************)
(* SettingsScreen handlers and the direct storage queries.                 *)
(***************************************************************************)
\* A backup made on another installation, and the same with keys missing.
ForeignData ==
    [exportDate |-> CallerTime,
     clients |-> Field(<<Client("c1")>>),
     goals |-> Field(<<Goal("g1", "c1", "active", 60, 80)>>),
     sessions |-> Field(<<>>),
     settings |-> Field(CustomSettings)]

Without(data, keys) ==
    [k \in DOMAIN data |-> IF k \in keys THEN NoField(k) ELSE data[k]]

ImportDocs ==
    {JSONstringify(Without(ForeignData, ks)) :
        ks \in {{}, {"clients"}, {"goals"}, {"sessions"}, {"settings"}}}
    \cup {[kind |-> "garbage", value |-> EmptyData]}

handleExportData(now, rf) ==
    /\ Charge(rf, {})
    /\ last' = [Call("exportAllData", "", TRUE, rf, {})
                  EXCEPT !.text = exportAllData(store, now, rf)]
    /\ UNCHANGED <<store, mirror, screen, trialsArg, statsRet, pending>>

\* importData, then refreshData when it reported success.
handleImportData(content, rf, wf) ==
    LET r == importData(store, content, wf)
    IN  /\ Charge(rf, wf)
        /\ store' = r.st
        /\ mirror' = IF r.ret THEN loadData(r.st, rf) ELSE mirror
        /\ last' = [Call("importData", "", r.ret, rf, wf) EXCEPT
                      !.text = content,
                      !.roundTrip = last.op = "exportAllData"
                                    /\ content = last.text]
        /\ UNCHANGED <<screen, trialsArg, statsRet, pending>>

\* clearAllData, then refreshData whatever it returned.  last.text keeps
\* what an export would have returned just before the call.
handleClearData(fails, rf) ==
    LET r == clearAllData(store, fails)
    IN  /\ Charge(rf, IF fails THEN STORAGE_KEYS ELSE {})
        /\ store' = r.st
        /\ mirror' = loadData(r.st, rf)
        /\ last' = [Call("clearAllData", "", r.ret, rf,
                         IF fails THEN STORAGE_KEYS ELSE {})
                      EXCEPT !.text = exportAllData(store, CallerTime, {})]
        /\ UNCHANGED <<screen, trialsArg, statsRet, pending>>

\* SettingsStorage.reset called directly; the facade's state is not told.
resetSettings(wf) ==
    LET r == SettingsStorage_reset(store, wf)
    IN  /\ Charge({}, wf)
        /\ store' = r.st
        /\ last' = Call("resetSettings", "", r.ret, {}, wf)
        /\ UNCHANGED <<mirror, screen, trialsArg, statsRet, pending>>

queryActiveByClientId(clientId, rf) ==
    /\ Charge(rf, {})
    /\ last' = [Call("getActiveByClientId", clientId, TRUE, rf, {})
                  EXCEPT !.goals =
                      GoalStorage_getActiveByClientId(store, clientId, rf)]
    /\ UNCHANGED <<store, mirror, screen, trialsArg, statsRet, pending>>

queryActiveGoalsByClient(clientId) ==
    /\ last' = [Call("getActiveGoalsByClient", clientId, TRUE, {}, {})
                  EXCEPT !.goals = getActiveGoalsByClient(mirror, clientId)]
    /\ UNCHANGED <<store, mirror, screen, trialsArg, statsRet, pending, faults>>

\* The process is killed and started again: the store stays, the provider
\* is constructed anew and its mount effect runs loadData.
restart ==
    /\ mirror' = InitialMirror
    /\ last' = Call("restart", "", TRUE, {}, {})
    /\ UNCHANGED <<store, screen, trialsArg, statsRet, pending, faults>>

(***************************************************************************)
(* The record store and its facade as a state machine.                     *)
(***************************************************************************)
\* A call in progress: pc "reading" while its getItem is awaited, "writing"
\* while its setItem is awaited, holding the value it writes.
Slots == 1..MaxCalls

IdleCall == [pc |-> "idle", op |-> "", key |-> "", arg |-> NoArg, value |-> <<>>]

NoPending == [slot \in Slots |-> IdleCall]

ClosedScreen ==
    [open |-> FALSE, clientId |-> "", selectedGoalIds |-> <<>>,
     currentGoalIndex |-> 0, trials |-> <<>>, sessionStarted |-> FALSE]

NoStats == [op |-> "none", value |-> calculateSessionStats(<<>>)]

EmptyStore == [k \in STORAGE_KEYS |-> Absent(k)]

Init ==
    /\ store = EmptyStore
    /\ mirror = InitialMirror
    /\ last = NoCall
    /\ screen = ClosedScreen
    /\ trialsArg = <<>>
    /\ statsRet = NoStats
    /\ faults = 0
    /\ pending = NoPending

\* The outcomes of the storage I/O of one call: any of its writes may be
\* rejected; at most one of the keys it reads is unreadable.
Faults(keys) == SUBSET keys
ReadFaults(keys) == {{}} \cup {{k} : k \in keys}

Mount == mirror.isLoading /\ refreshData({})

Refresh == ~mirror.isLoading /\ refreshData({})

Restart == ~mirror.isLoading /\ restart

\* Add Client / Edit Client / delete, from the clients screens.
ClientOps(inputs) ==
    \/ \E c \in inputs, rf \in ReadFaults({"clients"}),
          wf \in Faults({"clients"}) :
          \/ Fresh(c.id, "clients") /\ addClient(c, StampTime, rf, wf)
          \/ c.id \in Ids(mirror.clients) /\ updateClient(c, StampTime, rf, wf)
    \/ \E id \in Ids(mirror.clients),
          rf \in ReadFaults({"clients", "goals", "sessions"}),
          wf \in Faults({"clients", "goals", "sessions"}) :
          deleteClient(id, rf, wf)

\* Add Goal (status active, for a client of the mirror), the goal detail
\* screen's status changes and delete.
GoalOps(inputs) ==
    \/ \E g \in inputs, rf \in ReadFaults({"goals"}),
          wf \in Faults({"goals"}) :
          \/ /\ Fresh(g.id, "goals")
             /\ g.clientId \in Ids(mirror.clients)
             /\ g.status = "active"
             /\ addGoal(g, StampTime, rf, wf)
          \/ /\ \E i \in 1..Len(mirror.goals) :
                    mirror.goals[i].id = g.id
                    /\ mirror.goals[i].clientId = g.clientId
             /\ updateGoal(g, StampTime, rf, wf)
    \/ \E id \in Ids(mirror.goals),
          rf \in ReadFaults({"goals"}), wf \in Faults({"goals"}) :
          deleteGoal(id, rf, wf)

SessionOps(inputs) ==
    \/ \E x \in inputs, rf \in ReadFaults({"sessions"}),
          wf \in Faults({"sessions"}) :
          \/ /\ Fresh(x.id, "sessions")
             /\ x.clientId \in Ids(mirror.clients)
             /\ addSession(x, rf, wf)
          \/ x.id \in Ids(mirror.sessions) /\ updateSession(x, rf, wf)
    \/ \E id \in Ids(mirror.sessions),
          rf \in ReadFaults({"sessions"}), wf \in Faults({"sessions"}) :
          deleteSession(id, rf, wf)

\* Add Client, Add Goal and End Session with every write succeeding.
Populate(goalInputs) ==
    \/ \E c \in ClientInputs :
          Fresh(c.id, "clients") /\ addClient(c, StampTime, {}, {})
    \/ \E g \in goalInputs :
          /\ Fresh(g.id, "goals") /\ g.clientId \in Ids(mirror.clients)
          /\ addGoal(g, StampTime, {}, {})
    \/ \E x \in SessionInputs :
          /\ Fresh(x.id, "sessions") /\ x.clientId \in Ids(mirror.clients)
          /\ addSession(x, {}, {})

\* Create, update and delete on the three collections, every call with
\* every outcome of its reads and writes.
Next ==
    \/ Mount
    \/ ~mirror.isLoading /\
         (\/ ClientOps(ClientInputs)
          \/ GoalOps({g \in OwnedGoalInputs : g.id = "g1"})
          \/ SessionOps({x \in SessionInputs : x.id = "s1"}))
    \/ Refresh
    \/ Restart

Spec == Init /\ [][Next]_vars

(***************************************************************************)
(* The ten mutations of the facade, on one client, one goal, one session   *)
(* and the settings, every call with every outcome of its reads and writes.*)
(***************************************************************************)
NextFacade ==
    \/ Mount
    \/ ~mirror.isLoading /\
         (\/ ClientOps({Client("c1")})
          \/ GoalOps({Goal("g1", "c1", status, 60, 80) :
                         status \in {"active", "discontinued"}})
          \/ SessionOps({x \in SessionInputs : x.id = "s1"})
          \/ \E x \in SettingsInputs, wf \in Faults({"settings"}) :
                updateSettings(x, wf))
    \/ Refresh

SpecFacade == Init /\ [][NextFacade]_vars

(***************************************************************************)
(* The cascade of a client delete, over two clients with a goal and a      *)
(* session each.                                                           *)
(***************************************************************************)
NextCascade ==
    \/ Mount
    \/ ~mirror.isLoading /\
         (\/ Populate({g \in OwnedGoalInputs : g.status = "active"})
          \/ \E id \in Ids(mirror.clients),
                rf \in ReadFaults({"clients", "goals", "sessions"}),
                wf \in Faults({"clients", "goals", "sessions"}) :
                deleteClient(id, rf, wf))
    \/ Refresh
    \/ Restart

SpecCascade == Init /\ [][NextCascade]_vars

(***************************************************************************)
(* The goal queries, over goals of every owner and status.                 *)
(***************************************************************************)
Queries ==
    \/ \E c \in ClientIds, rf \in ReadFaults({"goals"}) :
          queryActiveByClientId(c, rf)
    \/ \E c \in ClientIds : queryActiveGoalsByClient(c)

NextQuery ==
    \/ Mount
    \/ ~mirror.isLoading /\ (Populate(GoalInputs) \/ Queries)

SpecQuery == Init /\ [][NextQuery]_vars

(***************************************************************************)
(* Backup and settings: the SettingsScreen over a store that Add Client,   *)
(* Add Goal and End Session have filled.                                   *)
(***************************************************************************)
SettingsOps ==
    \/ \E x \in SettingsInputs, wf \in Faults({"settings"}) :
          updateSettings(x, wf)
    \/ \E now \in Times, rf \in ReadFaults(STORAGE_KEYS) :
          handleExportData(now, rf)
    \/ \E content \in ImportDocs \cup
                      (IF last.op = "exportAllData" THEN {last.text} ELSE {}),
          wf \in ReadFaults(STORAGE_KEYS) :
          handleImportData(content, {}, wf)
    \/ \E fails \in BOOLEAN : handleClearData(fails, {})
    \/ \E wf \in Faults({"settings"}) : resetSettings(wf)

NextBackup ==
    \/ Mount
    \/ ~mirror.isLoading /\ (Populate(OwnedGoalInputs) \/ SettingsOps)
    \/ Restart

SpecBackup == Init /\ [][NextBackup]_vars

(***************************************************************************)
(* calculateSessionStats called directly: on every trial sequence of up to *)
(* MaxLen trials, and on the sequences of up to MaxBlock trials that are   *)
(* correct ones followed by incorrect ones; then on permutations of them.  *)
(***************************************************************************)
Rep(x, n) == [i \in 1..n |-> x]

ShortInputs ==
    UNION {[1..n -> {Trial("g1", r, "s1") : r \in Responses}] : n \in 0..MaxLen}

BlockInputs ==
    {Rep(Trial("g1", "correct", "s1"), a)
        \o Rep(Trial("g1", "incorrect", "s1"), n - a) :
        <<a, n>> \in {<<x, y>> \in (0..MaxBlock) \X (0..MaxBlock) : x <= y}}

Swap(s, i, j) ==
    [k \in 1..Len(s) |-> IF k = i THEN s[j] ELSE IF k = j THEN s[i] ELSE s[k]]

Reverse(s) == [k \in 1..Len(s) |-> s[Len(s) + 1 - k]]

InitStats ==
    /\ trialsArg \in ShortInputs \cup BlockInputs
    /\ statsRet = NoStats
    /\ store = EmptyStore
    /\ mirror = InitialMirror
    /\ last = NoCall
    /\ screen = ClosedScreen
    /\ faults = 0
    /\ pending = NoPending

StatsFrame == UNCHANGED <<store, mirror, last, screen, faults, pending>>

StatsCall ==
    /\ statsRet.op = "none"
    /\ statsRet' = [op |-> "call", value |-> calculateSessionStats(trialsArg)]
    /\ UNCHANGED trialsArg
    /\ StatsFrame

\* The same call on the sequence with two of its trials exchanged.
StatsSwap ==
    /\ statsRet.op # "none"
    /\ Len(trialsArg) <= MaxLen
    /\ \E i, j \in 1..Len(trialsArg) :
          /\ i < j
          /\ trialsArg[i] # trialsArg[j]
          /\ trialsArg' = Swap(trialsArg, i, j)
    /\ statsRet' = [op |-> "permuted",
                    value |-> calculateSessionStats(trialsArg')]
    /\ StatsFrame

\* The same call on the sequence reversed.
StatsReverse ==
    /\ statsRet.op # "none"
    /\ trialsArg' = Reverse(trialsArg)
    /\ trialsArg' # trialsArg
    /\ statsRet' = [op |-> "permuted",
                    value |-> calculateSessionStats(trialsArg')]
    /\ StatsFrame

NextStats == StatsCall \/ StatsSwap \/ StatsReverse

SpecStats == InitStats /\ [][NextStats]_vars

(***************************************************************************)
(* NewSessionScreen: a session of client c1, whose goals g1 and g2 the     *)
(* store holds.  screen is the component's state; currentGoalIndex counts  *)
(* from 0.                                                                 *)
(***************************************************************************)
\* addSession and updateGoal of the facade, as functions of the store and
\* the facade's state.
FacadeAddSession(st, m, session, wf) ==
    LET r == SessionStorage_save(st, session, {}, wf)
    IN  [st |-> r.st,
         mirror |-> IF r.ret THEN [m EXCEPT !.sessions = Append(@, session)]
                    ELSE m,
         ret |-> r.ret]

FacadeUpdateGoal(st, m, goal, now, wf) ==
    LET r == GoalStorage_save(st, goal, now, {}, wf)
    IN  [st |-> r.st,
         mirror |-> IF r.ret THEN [m EXCEPT !.goals = MapReplace(@, goal)]
                    ELSE m,
         ret |-> r.ret]

\* The goal as calculateAndUpdateGoalAccuracy writes it back.
UpdatedGoal(goal, newAccuracy) ==
    [goal EXCEPT !.currentAccuracy = newAccuracy,
                 !.status = IF newAccuracy >= goal.targetAccuracy
                            THEN "achieved" ELSE goal.status,
                 !.updatedAt = CallerTime]

\* calculateAndUpdateGoalAccuracy that returns early for a goal without
\* trials.
calculateAndUpdateGoalAccuracy_skipUntried(st, m, seen, trials, goalId, wf) ==
    LET goal == getGoal(seen, goalId)
        goalTrials == SelectSeq(trials, LAMBDA t : t.goalId = goalId)
        stats == calculateSessionStats(goalTrials)
        newAccuracy == NewAccuracyOf(goal.value.currentAccuracy, stats.accuracy)
    IN  IF goal.null \/ goalTrials = <<>>
        THEN [st |-> st, mirror |-> m, ret |-> FALSE]
        ELSE FacadeUpdateGoal(st, m, UpdatedGoal(goal.value, newAccuracy),
                              StampTime, wf)

\* seen: the facade state of the render the callback was made in, which
\* its getGoal reads; trials: the trials of that render.
calculateAndUpdateGoalAccuracy(st, m, seen, trials, goalId, wf) ==
    LET goal == getGoal(seen, goalId)
        goalTrials == SelectSeq(trials, LAMBDA t : t.goalId = goalId)
        stats == calculateSessionStats(goalTrials)
        newAccuracy == NewAccuracyOf(goal.value.currentAccuracy, stats.accuracy)
    IN  IF goal.null
        THEN [st |-> st, mirror |-> m, ret |-> FALSE]
        ELSE FacadeUpdateGoal(st, m, UpdatedGoal(goal.value, newAccuracy),
                              StampTime, wf)

RECURSIVE UpdateAccuracies(_, _, _, _, _, _, _)
\* for (const goalId of selectedGoalIds) await
\* calculateAndUpdateGoalAccuracy(goalId); failed: the goals whose write is
\* rejected.
UpdateAccuracies(st, m, seen, trials, ids, i, failed) ==
    IF i > Len(ids) THEN [st |-> st, mirror |-> m]
    ELSE LET r == calculateAndUpdateGoalAccuracy(
                      st, m, seen, trials, ids[i],
                      IF ids[i] \in failed THEN {"goals"} ELSE {})
         IN  UpdateAccuracies(r.st, r.mirror, seen, trials, ids, i + 1, failed)

ScreenFrame == UNCHANGED <<store, mirror, last, trialsArg, statsRet, pending, faults>>

\* The component mounted with its route parameters.
openNewSession(clientId, initialGoalIds) ==
    /\ ~screen.open
    /\ screen' = [open |-> TRUE, clientId |-> clientId,
                  selectedGoalIds |-> initialGoalIds, currentGoalIndex |-> 0,
                  trials |-> <<>>, sessionStarted |-> FALSE]
    /\ ScreenFrame

\* navigation.goBack(): Cancel, or Discard of a session without trials.
goBack ==
    /\ screen.open
    /\ ~screen.sessionStarted \/ screen.trials = <<>>
    /\ screen' = ClosedScreen
    /\ ScreenFrame

Includes(s, x) == \E i \in 1..Len(s) : s[i] = x

toggleGoalSelection(goalId) ==
    /\ screen.open /\ ~screen.sessionStarted
    /\ screen' = [screen EXCEPT !.selectedGoalIds =
                     IF Includes(@, goalId)
                     THEN SelectSeq(@, LAMBDA id : id # goalId)
                     ELSE Append(@, goalId)]
    /\ ScreenFrame

handleStartSession ==
    /\ screen.open /\ ~screen.sessionStarted
    /\ screen' = IF Len(screen.selectedGoalIds) = 0 THEN screen
                 ELSE [screen EXCEPT !.sessionStarted = TRUE]
    /\ ScreenFrame

\* The first goal of the facade's state, whatever is selected.
currentGoal_unselected == getGoal(mirror, "g1")

currentGoal ==
    IF Len(screen.selectedGoalIds) = 0 THEN getGoal(mirror, "")
    ELSE getGoal(mirror, screen.selectedGoalIds[screen.currentGoalIndex + 1])

currentGoalTrials ==
    {i \in 1..Len(screen.trials) :
        ~currentGoal.null /\ screen.trials[i].goalId = currentGoal.value.id}

handleRecordTrial(response) ==
    /\ screen.open /\ screen.sessionStarted
    /\ Len(screen.trials) < MaxTrials
    /\ screen' = IF currentGoal.null THEN screen
                 ELSE [screen EXCEPT !.trials =
                          Append(@, Trial(currentGoal.value.id, response, ""))]
    /\ ScreenFrame

\* Drops the last trial of the current goal.
handleDeleteLastTrial ==
    /\ screen.open /\ screen.sessionStarted
    /\ screen' =
         IF currentGoalTrials = {} THEN screen
         ELSE LET k == CHOOSE i \in currentGoalTrials :
                          \A j \in currentGoalTrials : j <= i
              IN  [screen EXCEPT !.trials =
                      SubSeq(@, 1, k - 1) \o SubSeq(@, k + 1, Len(@))]
    /\ ScreenFrame

handleNextGoal ==
    /\ screen.open /\ screen.sessionStarted
    /\ screen' = IF screen.currentGoalIndex < Len(screen.selectedGoalIds) - 1
                 THEN [screen EXCEPT !.currentGoalIndex = @ + 1] ELSE screen
    /\ ScreenFrame

handlePrevGoal ==
    /\ screen.open /\ screen.sessionStarted
    /\ screen' = IF screen.currentGoalIndex > 0
                 THEN [screen EXCEPT !.currentGoalIndex = @ - 1] ELSE screen
    /\ ScreenFrame

\* The trials as recorded, their placeholder sessionId kept.
SessionTrials_placeholder(trials, sessionId) == trials

\* trials.map((t) => ({ ...t, sessionId }))
SessionTrials(trials, sessionId) ==
    [i \in 1..Len(trials) |-> [trials[i] EXCEPT !.sessionId = sessionId]]

\* End Session.  Without trials: the alert, nothing saved.  Else addSession
\* and, when it succeeded, the accuracy of every selected goal and goBack.
\* last.goals keeps the goals the handler's render saw.
handleEndSession(sessionId, wf, failed) ==
    LET sessionTrials == SessionTrials(screen.trials, sessionId)
        session == Session(sessionId, screen.clientId,
                           screen.selectedGoalIds, sessionTrials)
        saved == FacadeAddSession(store, mirror, session, wf)
        done == UpdateAccuracies(saved.st, saved.mirror, mirror, screen.trials,
                                 screen.selectedGoalIds, 1, failed)
        rejected == wf \cup (IF saved.ret /\ failed # {} THEN {"goals"} ELSE {})
    IN  /\ screen.open /\ screen.sessionStarted
        /\ IF screen.trials = <<>>
           THEN /\ last' = Call("handleEndSession", "", FALSE, {}, {})
                /\ UNCHANGED <<store, mirror, screen, faults>>
           ELSE /\ Charge({}, rejected)
                /\ store' = IF saved.ret THEN done.st ELSE saved.st
                /\ mirror' = IF saved.ret THEN done.mirror ELSE saved.mirror
                /\ screen' = IF saved.ret THEN ClosedScreen ELSE screen
                /\ last' = [Call("handleEndSession", sessionId, saved.ret,
                                 {}, rejected)
                              EXCEPT !.goals = mirror.goals]
        /\ UNCHANGED <<trialsArg, statsRet, pending>>

\* The goals g1 and g2 of client c1 before the session: g1 in any status,
\* g2 active.  A goal that was achieved has an accuracy above 0.
CurrentAccuracies == {0, 60, 79}

SessionStore(status, currentAccuracy) ==
    [EmptyStore EXCEPT
       !["clients"] = JSONstringify(<<Client("c1")>>),
       !["goals"] = JSONstringify(
           <<Goal("g1", "c1", status, currentAccuracy, 80),
             Goal("g2", "c1", "active", 60, 80)>>)]

InitSession ==
    /\ \E status \in Statuses, cur \in CurrentAccuracies :
          /\ status = "achieved" => cur > 0
          /\ store = SessionStore(status, cur)
    /\ mirror = loadData(store, {})
    /\ last = NoCall
    /\ screen = ClosedScreen
    /\ trialsArg = <<>>
    /\ statsRet = NoStats
    /\ faults = 0
    /\ pending = NoPending

\* The responses recorded in a session.
SessionResponses == {"correct", "incorrect"}

\* New Session from the client's screen (no goalIds), or Start Session
\* with Goal from the detail screen of one of the client's goals.
RouteParams ==
    {<<c, <<>>>> : c \in Ids(mirror.clients)}
    \cup {<<mirror.goals[i].clientId, <<mirror.goals[i].id>>>> :
             i \in 1..Len(mirror.goals)}

\* One session, of id s1, is held in a run.
NextSession ==
    \/ \E p \in RouteParams :
          Fresh("s1", "sessions") /\ openNewSession(p[1], p[2])
    \/ goBack
    \/ \E g \in Ids(getActiveGoalsByClient(mirror, screen.clientId)) :
          toggleGoalSelection(g)
    \/ handleStartSession
    \/ \E r \in SessionResponses : handleRecordTrial(r)
    \/ handleDeleteLastTrial
    \/ handleNextGoal
    \/ handlePrevGoal
    \/ \E wf \in Faults({"sessions"}),
          failed \in SUBSET {"g1", "g2"} :
          /\ Fresh("s1", "sessions")
          /\ handleEndSession("s1", wf, failed)

SpecSession == InitSession /\ [][NextSession]_vars

(***************************************************************************)
(* Facade calls that overlap.  A handler's `await updateX(...)` suspends   *)
(* at the store's await of AsyncStorage.getItem and again at its await of  *)
(* AsyncStorage.setItem; the screen stays live meanwhile, and its buttons  *)
(* are not disabled, so another handler can start.                         *)
(***************************************************************************)
\* The call a handler starts, suspended at its read.
Started(op, key, entity) ==
    [pc |-> "reading", op |-> op, key |-> key, arg |-> entity, value |-> <<>>]

PendingFrame ==
    UNCHANGED <<store, mirror, last, screen, trialsArg, statsRet, faults>>

\* ClientDetailScreen, Mark as Inactive / Active:
\* updateClient({...client, isActive: !client.isActive, updatedAt: now}).
handleToggleActive(slot, clientId) ==
    /\ pending[slot].pc = "idle"
    /\ FindIndex(mirror.clients, clientId) > 0
    /\ pending' = [pending EXCEPT ![slot] =
           Started("updateClient", "clients",
                   [mirror.clients[FindIndex(mirror.clients, clientId)]
                      EXCEPT !.updatedAt = CallerTime])]
    /\ PendingFrame

\* GoalDetailScreen: Mark Achieved (shown for an active goal at its target),
\* Discontinue (active goal), Reactivate (goal not active):
\* updateGoal({...goal, status, updatedAt: now}).
handleStatusChange(slot, goalId, status) ==
    /\ pending[slot].pc = "idle"
    /\ ~getGoal(mirror, goalId).null
    /\ LET goal == getGoal(mirror, goalId).value
       IN  /\ CASE status = "achieved" ->
                     goal.status = "active"
                     /\ goal.currentAccuracy >= goal.targetAccuracy
                [] status = "discontinued" -> goal.status = "active"
                [] status = "active" -> goal.status # "active"
           /\ pending' = [pending EXCEPT ![slot] =
                  Started("updateGoal", "goals",
                          [goal EXCEPT !.status = status,
                                       !.updatedAt = CallerTime])]
    /\ PendingFrame

\* The document save writes when its read returned the document of st.
SavedValue(st, op, entity) ==
    IF op = "updateClient"
    THEN ClientStorage_save(st, entity, StampTime, {}, {}).st["clients"].value
    ELSE GoalStorage_save(st, entity, StampTime, {}, {}).st["goals"].value

\* The read of a save completes: the call goes on to its write.
saveRead(slot) ==
    /\ pending[slot].pc = "reading"
    /\ pending' = [pending EXCEPT ![slot] =
           [pending[slot] EXCEPT
              !.pc = "writing",
              !.value = SavedValue(store, pending[slot].op,
                                   pending[slot].arg)]]
    /\ PendingFrame

\* The write of a save completes; the facade applies the change on success
\* and the call returns.
saveWrite(slot, wf) ==
    LET call == pending[slot]
        r == setItem(store, call.key, call.value, wf)
    IN  /\ call.pc = "writing"
        /\ Charge({}, wf)
        /\ store' = r.st
        /\ mirror' = IF r.ret
                     THEN [mirror EXCEPT
                             ![call.key] = MapReplace(@, call.arg)]
                     ELSE mirror
        /\ last' = [Call(call.op, call.arg.id, r.ret, {}, wf)
                      EXCEPT !.arg = call.arg]
        /\ pending' = [pending EXCEPT ![slot] = IdleCall]
        /\ UNCHANGED <<screen, trialsArg, statsRet>>

\* Two clients and a goal of the first, loaded.
OverlapStore ==
    [EmptyStore EXCEPT
       !["clients"] = JSONstringify(<<Client("c1"), Client("c2")>>),
       !["goals"] = JSONstringify(<<Goal("g1", "c1", "active", 80, 80)>>)]

InitOverlap ==
    /\ store = OverlapStore
    /\ mirror = loadData(store, {})
    /\ last = NoCall
    /\ screen = ClosedScreen
    /\ trialsArg = <<>>
    /\ statsRet = NoStats
    /\ faults = 0
    /\ pending = NoPending

NextOverlap ==
    \/ \E slot \in Slots, c \in ClientIds : handleToggleActive(slot, c)
    \/ \E slot \in Slots, status \in Statuses :
          handleStatusChange(slot, "g1", status)
    \/ \E slot \in Slots : saveRead(slot)
    \/ \E slot \in Slots :
          \E wf \in Faults({pending[slot].key}) : saveWrite(slot, wf)

SpecOverlap == InitOverlap /\ [][NextOverlap]_vars

(***************************************************************************)
(* A client delete that the end of the process interrupts.  The call is    *)
(* suspended at its read of the clients (pc "reading"), then before the    *)
(* cascade on the goals ("goals"), before the cascade on the sessions      *)
(* ("sessions") and at its write of the clients ("writing").               *)
(***************************************************************************)
\* A delete that writes the clients document before the cascade.
deleteProgress_clientsFirst(st, call) ==
    LET id == call.arg.id
    IN  CASE call.pc = "reading" ->
               [st |-> setItem(st, "clients",
                               SelectSeq(ClientStorage_getAll(st, {}),
                                         LAMBDA c : c.id # id), {}).st,
                pc |-> "goals", value |-> <<>>]
          [] call.pc = "goals" ->
               [st |-> GoalStorage_deleteByClientId(st, id, {}, {}).st,
                pc |-> "sessions", value |-> call.value]
          [] call.pc = "sessions" ->
               [st |-> SessionStorage_deleteByClientId(st, id, {}, {}).st,
                pc |-> "writing", value |-> call.value]
          [] call.pc = "writing" ->
               [st |-> st, pc |-> "idle", value |-> <<>>]

\* One step of ClientStorage.delete from where the call is suspended: the
\* store it leaves, where it is suspended next, and the value it holds.
deleteProgress(st, call) ==
    LET id == call.arg.id
    IN  CASE call.pc = "reading" ->
               [st |-> st, pc |-> "goals",
                value |-> SelectSeq(ClientStorage_getAll(st, {}),
                                    LAMBDA c : c.id # id)]
          [] call.pc = "goals" ->
               [st |-> GoalStorage_deleteByClientId(st, id, {}, {}).st,
                pc |-> "sessions", value |-> call.value]
          [] call.pc = "sessions" ->
               [st |-> SessionStorage_deleteByClientId(st, id, {}, {}).st,
                pc |-> "writing", value |-> call.value]
          [] call.pc = "writing" ->
               [st |-> setItem(st, "clients", call.value, {}).st,
                pc |-> "idle", value |-> <<>>]

\* ClientDetailScreen, Delete confirmed: deleteClient(clientId) starts.
handleDelete(slot, clientId) ==
    /\ ~mirror.isLoading
    /\ pending = NoPending
    /\ clientId \in Ids(mirror.clients)
    /\ pending' = [pending EXCEPT ![slot] =
           Started("deleteClient", "clients", [id |-> clientId])]
    /\ PendingFrame

\* The delete goes on to its next await; after the last one the facade
\* drops the client's records and the call returns.
deleteStep(slot) ==
    LET call == pending[slot]
        r == deleteProgress(store, call)
        id == call.arg.id
    IN  /\ call.op = "deleteClient" /\ call.pc # "idle"
        /\ store' = r.st
        /\ pending' = [pending EXCEPT ![slot] =
               IF r.pc = "idle" THEN IdleCall
               ELSE [call EXCEPT !.pc = r.pc, !.value = r.value]]
        /\ mirror' =
             IF r.pc = "idle"
             THEN [mirror EXCEPT
                     !.clients = SelectSeq(@, LAMBDA c : c.id # id),
                     !.goals = SelectSeq(@, LAMBDA g : g.clientId # id),
                     !.sessions = SelectSeq(@, LAMBDA x : x.clientId # id)]
             ELSE mirror
        /\ last' = IF r.pc = "idle" THEN Call("deleteClient", id, TRUE, {}, {})
                   ELSE last
        /\ UNCHANGED <<screen, trialsArg, statsRet, faults>>

\* The process ends while the delete is in progress and is started again:
\* the store stays, the call is gone, the provider is constructed anew.
\* last.arg keeps the call that was cut off.
interrupt(slot) ==
    /\ pending[slot].op = "deleteClient" /\ pending[slot].pc # "idle"
    /\ pending' = NoPending
    /\ mirror' = InitialMirror
    /\ last' = [Call("interrupted", pending[slot].arg.id, FALSE, {}, {})
                  EXCEPT !.arg = pending[slot]]
    /\ UNCHANGED <<store, screen, trialsArg, statsRet, faults>>

\* Two clients with a goal and a session each, loaded.
InterruptStore ==
    [EmptyStore EXCEPT
       !["clients"] = JSONstringify(<<Client("c1"), Client("c2")>>),
       !["goals"] = JSONstringify(<<Goal("g1", "c1", "active", 60, 80),
                                    Goal("g2", "c2", "active", 60, 80)>>),
       !["sessions"] = JSONstringify(
           <<Session("s1", "c1", <<"g1">>, <<Trial("g1", "correct", "s1")>>),
             Session("s2", "c2", <<"g2">>, <<Trial("g2", "correct", "s2")>>)>>)]

InitInterrupt ==
    /\ store = InterruptStore
    /\ mirror = loadData(store, {})
    /\ last = NoCall
    /\ screen = ClosedScreen
    /\ trialsArg = <<>>
    /\ statsRet = NoStats
    /\ faults = 0
    /\ pending = NoPending

NextInterrupt ==
    \/ Mount
    \/ \E c \in ClientIds : handleDelete(1, c)
    \/ deleteStep(1)
    \/ interrupt(1)

SpecInterrupt == InitInterrupt /\ [][NextInterrupt]_vars

(***************************************************************************)
(* Properties of calculateSessionStats.                                    *)
(***************************************************************************)
\* The number of trials of the argument that carry the response r.
NumberOf(r) == Cardinality({i \in 1..Len(trialsArg) : trialsArg[i].response = r})

\* C4: the four counts of a result add up to totalTrials, totalTrials is
\* the length of the sequence, and each count is the number of trials that
\* carry its response.
C4_CountsPartitionTrials ==
    statsRet.op # "none" =>
        LET r == statsRet.value
        IN  /\ r.totalTrials = Len(trialsArg)
            /\ r.correctTrials + r.incorrectTrials + r.approximationTrials
                 + r.noResponseTrials = r.totalTrials
            /\ r.correctTrials = NumberOf("correct")
            /\ r.incorrectTrials = NumberOf("incorrect")
            /\ r.approximationTrials = NumberOf("approximation")
            /\ r.noResponseTrials = NumberOf("no_response")

\* A result for a sequence that holds all four responses.
C4_Witness ==
    /\ statsRet.op = "call"
    /\ \A r \in Responses : NumberOf(r) >= 1

\* n / d rounded to the nearest integer, a half going up.
RoundHalfUp(n, d) == (2 * n + d) \div (2 * d)

\* C5: accuracy is 100 * correctTrials / totalTrials rounded to the nearest
\* integer, a half going up, and 0 with every count 0 for no trials.
C5_AccuracyIsRoundedPercentage ==
    statsRet.op # "none" =>
        LET r == statsRet.value
        IN  IF Len(trialsArg) = 0
            THEN r = [totalTrials |-> 0, correctTrials |-> 0,
                      incorrectTrials |-> 0, approximationTrials |-> 0,
                      noResponseTrials |-> 0, accuracy |-> 0]
            ELSE r.accuracy = RoundHalfUp(100 * NumberOf("correct"),
                                          Len(trialsArg))

\* C6: the call on a permutation of a sequence returns what the call on
\* the sequence returned, in all six fields.
C6_OrderIndependent ==
    [][(statsRet.op # "none" /\ statsRet'.op = "permuted")
         => statsRet'.value = statsRet.value]_vars

\* A permuted sequence that starts with an incorrect trial and holds a
\* correct one and one of a third response.
C6_Witness ==
    /\ statsRet.op = "permuted"
    /\ Len(trialsArg) >= 3
    /\ trialsArg[1].response = "incorrect"
    /\ NumberOf("correct") >= 1
    /\ NumberOf("approximation") >= 1

(***************************************************************************)
(* Properties of the record store, its facade and the backup.              *)
(***************************************************************************)
\* What the four readers return on a store when every read succeeds.
Views(st) ==
    [clients |-> ClientStorage_getAll(st, {}),
     goals |-> GoalStorage_getAll(st, {}),
     sessions |-> SessionStorage_getAll(st, {}),
     settings |-> SettingsStorage_get(st, {})]

\* C1: when deleteClient(X) has returned true (its reads not rejected,
\* its writes with any outcome), the persisted store holds no client X, no
\* goal and no session of client X, and the clients, goals and sessions of
\* the other clients are those held before, unchanged.
C1_DeleteRemovesClientGoalsSessions ==
    [][(last'.op = "deleteClient" /\ last'.ret /\ last'.rok) =>
         LET X == last'.id
             old == Views(store)
             new == Views(store')
         IN  /\ \A i \in 1..Len(new.clients) : new.clients[i].id # X
             /\ \A i \in 1..Len(new.goals) : new.goals[i].clientId # X
             /\ \A i \in 1..Len(new.sessions) : new.sessions[i].clientId # X
             /\ new.clients = SelectSeq(old.clients, LAMBDA c : c.id # X)
             /\ new.goals = SelectSeq(old.goals, LAMBDA g : g.clientId # X)
             /\ new.sessions =
                  SelectSeq(old.sessions, LAMBDA x : x.clientId # X)]_vars

Collections == {"clients", "goals", "sessions"}

\* The collection a save call writes to.
SavedTo(op) ==
    CASE op \in {"addClient", "updateClient"} -> "clients"
      [] op \in {"addGoal", "updateGoal"} -> "goals"
      [] op \in {"addSession", "updateSession"} -> "sessions"

NumberWithId(s, id) == Cardinality({i \in 1..Len(s) : s[i].id = id})

\* C3: each persisted collection holds at most one record per id, and after
\* the same entity was saved twice in a row the collection holds exactly one
\* record with its id.
C3_SaveIdempotentOnId ==
    /\ \A k \in Collections :
          \A id \in Ids(store[k].value) : NumberWithId(store[k].value, id) = 1
    /\ last.twice =>
          NumberWithId(store[SavedTo(last.op)].value, last.id) = 1

\* A client saved twice in a row, in a collection that holds another one.
C3_Witness ==
    /\ last.twice /\ last.op = "updateClient"
    /\ Len(store["clients"].value) = 2

\* The positions of the active goals of a client in a collection.
ActiveIndexes(goals, clientId) ==
    {i \in 1..Len(goals) :
        goals[i].clientId = clientId /\ goals[i].status = "active"}

\* r lists exactly the active goals of the client, in collection order.
IsActiveGoalsOf(r, goals, clientId) ==
    LET idx == ActiveIndexes(goals, clientId)
        nth(k) == CHOOSE i \in idx : Cardinality({j \in idx : j <= i}) = k
    IN  /\ Len(r) = Cardinality(idx)
        /\ \A k \in 1..Len(r) : r[k] = goals[nth(k)]

\* C9: GoalStorage.getActiveByClientId (its read not rejected) and the
\* facade's getActiveGoalsByClient return exactly the goals of the
\* collection whose clientId is the argument and whose status is active, in
\* collection order.
C9_ActiveGoalsOfClient ==
    /\ (last.op = "getActiveByClientId" /\ last.rok) =>
          IsActiveGoalsOf(last.goals, Views(store).goals, last.id)
    /\ last.op = "getActiveGoalsByClient" =>
          IsActiveGoalsOf(last.goals, mirror.goals, last.id)

\* The storage query on a client with one active goal and one that is not.
C9_Witness ==
    /\ last.op = "getActiveByClientId" /\ last.rok
    /\ Len(last.goals) = 1
    /\ \E i \in 1..Len(Views(store).goals) :
          /\ Views(store).goals[i].clientId = last.id
          /\ Views(store).goals[i].status # "active"

\* The keys a parsed backup lacks.
MissingKeys(text) == {k \in STORAGE_KEYS : ~text.value[k].present}

\* C10: importing a parseable backup that lacks one of the four keys (no
\* write rejected) leaves the document of the missing key unchanged, makes
\* the documents of the present keys those of the backup, and returns true.
C10_ImportSkipsMissingKey ==
    [][(/\ last'.op = "importData"
        /\ last'.text.kind = "json"
        /\ Cardinality(MissingKeys(last'.text)) = 1
        /\ last'.wok) =>
         /\ \A k \in MissingKeys(last'.text) : store'[k] = store[k]
         /\ \A k \in STORAGE_KEYS \ MissingKeys(last'.text) :
               store'[k] = JSONstringify(last'.text.value[k].value)
         /\ last'.ret]_vars

\* A backup without the goals key imported over a store that holds goals
\* other than the backup's.
C10_Witness ==
    /\ last.op = "importData" /\ last.wok /\ last.ret
    /\ MissingKeys(last.text) = {"goals"}
    /\ Len(Views(store).goals) = 2
    /\ store["clients"] = JSONstringify(last.text.value["clients"].value)

(***************************************************************************)
(* Properties of ending a session.                                         *)
(***************************************************************************)
\* The record of the given id in a sequence of records that holds one.
ById(s, id) == s[CHOOSE i \in 1..Len(s) : s[i].id = id]

\* The accuracy of the trials of a session for a goal.
SessionAccuracy(session, goalId) ==
    calculateSessionStats(
        SelectSeq(session.trials, LAMBDA t : t.goalId = goalId)).accuracy

\* (a + b) / 2 rounded to the nearest integer, a half going up.
RoundedMean(a, b) == (a + b + 1) \div 2

\* C7: when End Session has saved the session and no write was rejected,
\* every goal of the saved session's goals, also one without a trial, has in
\* the store and in the facade's state the rounded mean of its previous
\* currentAccuracy and the accuracy of the session's trials for it, and the
\* status achieved if it was active and the new value is at least its
\* targetAccuracy.
C7_EndSessionUpdatesGoalAccuracy ==
    [][(last'.op = "handleEndSession" /\ last'.ret /\ last'.wok) =>
         /\ last'.id \in Ids(Views(store').sessions)
         /\ LET session == ById(Views(store').sessions, last'.id)
            IN  /\ Len(session.goals) >= 1
                /\ \A k \in 1..Len(session.goals) :
                      LET id == session.goals[k]
                          old == ById(Views(store).goals, id)
                          expected == RoundedMean(old.currentAccuracy,
                                                  SessionAccuracy(session, id))
                      IN  \A new \in {ById(Views(store').goals, id),
                                      ById(mirror'.goals, id)} :
                             /\ new.currentAccuracy = expected
                             /\ (old.status = "active"
                                 /\ expected >= old.targetAccuracy)
                                   => new.status = "achieved"]_vars

\* The example: g1 active at 60 with target 80 and a session of accuracy 100
\* for it gives 80 and achieved; g2, selected without a trial, goes from 60
\* to 30.
C7_Witness ==
    /\ last.op = "handleEndSession" /\ last.ret /\ last.wok
    /\ ById(last.goals, "g1").status = "active"
    /\ ById(last.goals, "g1").currentAccuracy = 60
    /\ ById(Views(store).goals, "g1").currentAccuracy = 80
    /\ ById(Views(store).goals, "g1").status = "achieved"
    /\ ById(Views(store).sessions, "s1").goals = <<"g1", "g2">>
    /\ ById(Views(store).goals, "g2").currentAccuracy = 30

\* C8: End Session changes the status of a goal only from active to
\* achieved and only when the goal's new accuracy is at least its
\* targetAccuracy; the status of every other goal, one that was discontinued
\* or achieved included, stays what it was.
C8_StatusOnlyActiveToAchieved ==
    [][last'.op = "handleEndSession" =>
         \A id \in Ids(Views(store).goals) :
            LET old == ById(Views(store).goals, id)
            IN  \A new \in {ById(Views(store').goals, id),
                            ById(mirror'.goals, id)} :
                   new.status # old.status =>
                      /\ old.status = "active"
                      /\ new.status = "achieved"
                      /\ new.currentAccuracy >= old.targetAccuracy]_vars

(***************************************************************************)
(* Properties of import, of failed writes and of the facade's state.       *)
(***************************************************************************)
\* The records of a sequence.
Records(s) == {s[i] : i \in 1..Len(s)}

C12_ImportRejectsUnparseable ==
    [][(last'.op = "importData" /\ last'.text.kind # "json") =>
         /\ ~last'.ret
         /\ store' = store
         /\ mirror' = mirror]_vars

\* An unparseable text imported over a store that holds a client.
C12_Witness ==
    /\ last.op = "importData" /\ last.text.kind = "garbage" /\ ~last.ret
    /\ Len(Views(store).clients) >= 1
    /\ mirror.clients = Views(store).clients

\* The save and delete calls of the three collections, by way of the facade.
StoreOps ==
    {"addClient", "updateClient", "deleteClient", "addGoal", "updateGoal",
     "deleteGoal", "addSession", "updateSession", "deleteSession"}

\* The collection a save or delete call is for.
CollectionOf(op) ==
    CASE op \in {"addClient", "updateClient", "deleteClient"} -> "clients"
      [] op \in {"addGoal", "updateGoal", "deleteGoal"} -> "goals"
      [] op \in {"addSession", "updateSession", "deleteSession"} -> "sessions"

FacadeMutations == StoreOps \cup {"updateSettings"}

KeyOf(op) == IF op = "updateSettings" THEN "settings" ELSE CollectionOf(op)

\* C14: a facade mutation returns the store's success flag (true exactly
\* when the write of the call's document was not rejected), and when the
\* flag is false the clients, goals, sessions and settings of the facade's
\* state are what they were before the call.
C14_FacadeReturnsStoreFlag ==
    [][last'.op \in FacadeMutations =>
         /\ last'.ret = (KeyOf(last'.op) \notin last'.rejected)
         /\ ~last'.ret => mirror' = mirror]_vars

\* A failed addGoal: the facade's state holds the client and no goal.
C14_Witness ==
    /\ last.op = "addGoal" /\ ~last.ret
    /\ mirror.goals = <<>>
    /\ Len(mirror.clients) = 1

\* A record without the timestamp the store stamps.
Unstamped(r) == IF "updatedAt" \in DOMAIN r THEN [r EXCEPT !.updatedAt = ""]
                ELSE r

\* C15: after the initial load and after every completed facade mutation
\* (no read rejected, the writes with any outcome), the clients, goals and
\* sessions of the facade's state are, timestamps aside, exactly the
\* persisted records, one per id.
C15_MirrorEqualsStore ==
    (/\ ~mirror.isLoading
     /\ last.op \in StoreOps \cup {"refreshData"}
     /\ last.rok) =>
        \A k \in Collections :
           /\ {Unstamped(r) : r \in Records(mirror[k])}
                = {Unstamped(r) : r \in Records(Views(store)[k])}
           /\ \A id \in Ids(mirror[k]) : NumberWithId(mirror[k], id) = 1

(***************************************************************************)
(* Properties of calls in progress.                                        *)
(***************************************************************************)
\* C16: while a save or delete is between its read and its write of a
\* collection, no other save or delete that the application started reads
\* or writes that collection.
C16_NoOverlappingMutations ==
    [][\A i, j \in Slots :
          (/\ i # j
           /\ pending[i].pc = "writing" /\ pending'[i] = pending[i]
           /\ pending[j].pc \in {"reading", "writing"}
           /\ pending[j].key = pending[i].key)
             => pending'[j] = pending[j]]_vars

\* The delete of a client that is in progress or was cut off: its call.
DeleteInProgress ==
    {pending[slot] : slot \in {x \in Slots : pending[x].op = "deleteClient"}}
    \cup (IF last.op = "interrupted" THEN {last.arg} ELSE {})

\* C17 as stated: the clients document is the first that a client delete
\* writes, so once the delete has written the goals the client is persisted
\* no more.
C17_ClientsWrittenFirst ==
    \A call \in DeleteInProgress :
       call.pc \in {"sessions", "writing"} =>
          call.arg.id \notin Ids(Views(store).clients)

\* C17, amended: a client delete writes the goals, then the sessions, then
\* the clients.  While it is in progress, and after the end of the process
\* cut it off, the client is still persisted, without its goals once the
\* goals were written and without its sessions once the sessions were; and
\* every persisted goal and session has the id of a persisted client as its
\* clientId.
C17_ClientWrittenLast ==
    /\ \A call \in DeleteInProgress :
          /\ last.op = "interrupted" =>
                call.arg.id \in Ids(Views(store).clients)
          /\ call.pc \in {"sessions", "writing"} =>
                \A g \in Records(Views(store).goals) :
                   g.clientId # call.arg.id
          /\ call.pc = "writing" =>
                \A x \in Records(Views(store).sessions) :
                   x.clientId # call.arg.id
    /\ \A r \in Records(Views(store).goals) \cup Records(Views(store).sessions) :
          r.clientId \in Ids(Views(store).clients)

\* The delete of client c1 cut off between the write of the goals and the
\* write of the sessions: c1 and its session are persisted, its goal is not.
C17_Witness ==
    /\ last.op = "interrupted" /\ last.id = "c1" /\ last.arg.pc = "sessions"
    /\ "c1" \in Ids(Views(store).clients)
    /\ "s1" \in Ids(Views(store).sessions)
    /\ "g1" \notin Ids(Views(store).goals)

(***************************************************************************)
(* Properties of the sessions that End Session persists.                   *)
(***************************************************************************)
\* The sessions the store and the facade's state hold.
HeldSessions == Records(Views(store).sessions) \cup Records(mirror.sessions)

\* C18: every trial of a session persisted by End Session carries the id of
\* the session as its sessionId, none the placeholder it was recorded with.
C18_TrialsCarrySessionId ==
    \A x \in HeldSessions :
       \A i \in 1..Len(x.trials) :
          x.trials[i].sessionId = x.id /\ x.trials[i].sessionId # ""

\* A persisted session with two trials.
C18_Witness ==
    /\ last.op = "handleEndSession" /\ last.ret
    /\ \E x \in Records(Views(store).sessions) : Len(x.trials) = 2

\* C19: the goalId of every trial of a session persisted by End Session is
\* a member of the session's goals.
C19_TrialGoalsAreSessionGoals ==
    \A x \in HeldSessions :
       \A i \in 1..Len(x.trials) : Includes(x.goals, x.trials[i].goalId)

\* A persisted session of goal g2 and then goal g1, selected by toggles,
\* with a trial for each, recorded after a move to the next goal.
C19_Witness ==
    /\ last.op = "handleEndSession" /\ last.ret
    /\ \E x \in Records(Views(store).sessions) :
          /\ x.goals = <<"g2", "g1">>
          /\ Len(x.trials) = 2
          /\ x.trials[1].goalId = "g2"
          /\ x.trials[2].goalId = "g1"

(***************************************************************************)
(* Properties of clearAllData and of the settings.                         *)
(***************************************************************************)
\* C20: after a clearAllData that returned true the readers of the clients,
\* goals and sessions return the empty sequence and SettingsStorage.get the
\* default settings; SettingsStorage.get returns the defaults as well after
\* a SettingsStorage.reset that returned true and whenever the store holds
\* no settings document.
C20_ClearedStoreReadsEmpty ==
    /\ (last.op = "clearAllData" /\ last.ret) =>
          Views(store) = [clients |-> <<>>, goals |-> <<>>, sessions |-> <<>>,
                          settings |-> DEFAULT_SETTINGS]
    /\ (last.op = "resetSettings" /\ last.ret) =>
          Views(store).settings = DEFAULT_SETTINGS
    /\ store["settings"].kind = "absent" =>
          Views(store).settings = DEFAULT_SETTINGS

\* A successful clearAllData on a store that held two clients, a goal, a
\* session and settings other than the defaults.
C20_Witness ==
    /\ last.op = "clearAllData" /\ last.ret
    /\ Len(last.text.value["clients"].value) = 2
    /\ Len(last.text.value["goals"].value) >= 1
    /\ Len(last.text.value["sessions"].value) >= 1
    /\ last.text.value["settings"].value = CustomSettings
    /\ store["settings"].kind = "absent"

(***************************************************************************)
(* Properties of the references between the collections.                   *)
(***************************************************************************)
\* The screens' creates, edits and deletes, one at a time, every write
\* succeeding, every read with every outcome; no import.
NextIntegrity ==
    \/ Mount
    \/ ~mirror.isLoading /\
         (\/ \E c \in ClientInputs, rf \in ReadFaults({"clients"}) :
                \/ Fresh(c.id, "clients") /\ addClient(c, StampTime, rf, {})
                \/ c.id \in Ids(mirror.clients)
                   /\ updateClient(c, StampTime, rf, {})
          \/ \E g \in {x \in OwnedGoalInputs : x.status = "active"},
                rf \in ReadFaults({"goals"}) :
                /\ Fresh(g.id, "goals") /\ g.clientId \in Ids(mirror.clients)
                /\ addGoal(g, StampTime, rf, {})
          \/ \E x \in SessionInputs, rf \in ReadFaults({"sessions"}) :
                /\ Fresh(x.id, "sessions") /\ x.clientId \in Ids(mirror.clients)
                /\ addSession(x, rf, {})
          \/ \E id \in Ids(mirror.clients),
                rf \in ReadFaults({"clients", "goals", "sessions"}) :
                deleteClient(id, rf, {})
          \/ \E id \in Ids(mirror.goals), rf \in ReadFaults({"goals"}) :
                deleteGoal(id, rf, {})
          \/ \E id \in Ids(mirror.sessions), rf \in ReadFaults({"sessions"}) :
                deleteSession(id, rf, {}))
    \/ Refresh

SpecIntegrity == Init /\ [][NextIntegrity]_vars

\* C21: with no import, every write succeeding and no two operations
\* overlapping, after every completed operation the clientId of each
\* persisted goal and of each persisted session is the id of a persisted
\* client.
C21_ReferentialIntegrity ==
    /\ \A g \in Records(Views(store).goals) :
          g.clientId \in Ids(Views(store).clients)
    /\ \A x \in Records(Views(store).sessions) :
          x.clientId \in Ids(Views(store).clients)

\* Two clients with a goal and a session each; any goal deleted, with every
\* outcome of its read and its write.
NextGoalDelete ==
    \/ Mount
    \/ ~mirror.isLoading /\
         (\/ Populate({g \in OwnedGoalInputs : g.status = "active"})
          \/ \E id \in Ids(mirror.goals),
                rf \in ReadFaults({"goals"}), wf \in Faults({"goals"}) :
                deleteGoal(id, rf, wf))
    \/ Refresh

SpecGoalDelete == Init /\ [][NextGoalDelete]_vars

\* C22: deleteGoal, whatever its read and its write do, leaves the sessions
\* and the clients as they were, in the store and in the facade's state, the
\* sessions that list the goal and the trials that reference it included;
\* when it returned true (its read not rejected) the goals are those held
\* before without the deleted one.
C22_DeleteGoalFrame ==
    [][last'.op = "deleteGoal" =>
         /\ store'["sessions"] = store["sessions"]
         /\ store'["clients"] = store["clients"]
         /\ mirror'.sessions = mirror.sessions
         /\ mirror'.clients = mirror.clients
         /\ (last'.ret /\ last'.rok) =>
               /\ Views(store').goals =
                    SelectSeq(Views(store).goals, LAMBDA g : g.id # last'.id)
               /\ mirror'.goals =
                    SelectSeq(mirror.goals, LAMBDA g : g.id # last'.id)]_vars

\* Goal g1 deleted while session s1 lists it and holds a trial for it, and
\* while goal g2 is persisted.
C22_Witness ==
    /\ last.op = "deleteGoal" /\ last.ret /\ last.rok /\ last.id = "g1"
    /\ "g1" \notin Ids(Views(store).goals)
    /\ "g2" \in Ids(Views(store).goals)
    /\ \E x \in Records(Views(store).sessions) \cap Records(mirror.sessions) :
          /\ Includes(x.goals, "g1")
          /\ \E i \in 1..Len(x.trials) : x.trials[i].goalId = "g1"

(***************************************************************************)
(* End Session await by await.  The handler is suspended at its            *)
(* `await addSession(session)` (pc "saving") and then at the               *)
(* `await calculateAndUpdateGoalAccuracy(goalId)` of each selected goal    *)
(* (pc "updating").  The call's arg holds its local variables: the session *)
(* it built and todo, the goal ids the loop has not reached (and, for the  *)
(* record, rejected: the keys a write of the call was rejected on); its    *)
(* value holds the goals of the render the handler was made in.            *)
(***************************************************************************)
\* handleEndSession up to its first await.  Without trials it shows the
\* alert and returns.
endSessionStart(slot, sessionId) ==
    LET session == Session(sessionId, screen.clientId, screen.selectedGoalIds,
                           SessionTrials(screen.trials, sessionId))
    IN  /\ screen.open /\ screen.sessionStarted
        /\ pending = NoPending
        /\ pending' =
             IF screen.trials = <<>> THEN pending
             ELSE [pending EXCEPT ![slot] =
                     [pc |-> "saving", op |-> "handleEndSession",
                      key |-> "sessions",
                      arg |-> [id |-> sessionId, session |-> session,
                               todo |-> screen.selectedGoalIds,
                               rejected |-> {}],
                      value |-> mirror.goals]]
        /\ PendingFrame

\* `if (success)` left out: the loop over the goals runs whatever addSession
\* returned.
endSessionSave_unchecked(slot, wf) ==
    LET call == pending[slot]
        saved == FacadeAddSession(store, mirror, call.arg.session, wf)
    IN  /\ call.op = "handleEndSession" /\ call.pc = "saving"
        /\ Charge({}, wf)
        /\ store' = saved.st
        /\ mirror' = saved.mirror
        /\ pending' = [pending EXCEPT ![slot] = [call EXCEPT !.pc = "updating"]]
        /\ UNCHANGED <<last, screen, trialsArg, statsRet>>

\* addSession returns.  On failure the handler shows the alert and returns;
\* on success it goes on to the first goal.
endSessionSave(slot, wf) ==
    LET call == pending[slot]
        saved == FacadeAddSession(store, mirror, call.arg.session, wf)
    IN  /\ call.op = "handleEndSession" /\ call.pc = "saving"
        /\ Charge({}, wf)
        /\ store' = saved.st
        /\ mirror' = saved.mirror
        /\ pending' = [pending EXCEPT ![slot] =
               IF saved.ret THEN [call EXCEPT !.pc = "updating"] ELSE IdleCall]
        /\ last' = IF saved.ret THEN last
                   ELSE [Call("handleEndSession", call.arg.id, FALSE, {}, wf)
                           EXCEPT !.goals = call.value]
        /\ UNCHANGED <<screen, trialsArg, statsRet>>

\* calculateAndUpdateGoalAccuracy of the next goal returns; after the last
\* one the handler calls navigation.goBack().
endSessionUpdate(slot, wf) ==
    LET call == pending[slot]
        r == calculateAndUpdateGoalAccuracy(store, mirror,
                 [mirror EXCEPT !.goals = call.value], screen.trials,
                 Head(call.arg.todo), wf)
        rest == Tail(call.arg.todo)
    IN  /\ call.op = "handleEndSession" /\ call.pc = "updating"
        /\ Charge({}, wf)
        /\ store' = r.st
        /\ mirror' = r.mirror
        /\ pending' = [pending EXCEPT ![slot] =
               IF rest = <<>> THEN IdleCall
               ELSE [call EXCEPT !.arg.todo = rest,
                                 !.arg.rejected = @ \cup wf]]
        /\ screen' = IF rest = <<>> THEN ClosedScreen ELSE screen
        /\ last' = IF rest = <<>>
                   THEN [Call("handleEndSession", call.arg.id, TRUE, {},
                              wf \cup call.arg.rejected)
                           EXCEPT !.goals = call.value]
                   ELSE last
        /\ UNCHANGED <<trialsArg, statsRet>>

NextEndSession ==
    \/ \E p \in RouteParams :
          Fresh("s1", "sessions") /\ pending = NoPending
          /\ openNewSession(p[1], p[2])
    \/ \E g \in Ids(getActiveGoalsByClient(mirror, screen.clientId)) :
          toggleGoalSelection(g)
    \/ handleStartSession
    \/ \E r \in SessionResponses : pending = NoPending /\ handleRecordTrial(r)
    \/ pending = NoPending /\ handleNextGoal
    \/ Fresh("s1", "sessions") /\ endSessionStart(1, "s1")
    \/ \E wf \in Faults({"sessions"}) : endSessionSave(1, wf)
    \/ \E wf \in Faults({"goals"}) : endSessionUpdate(1, wf)

SpecEndSession == InitSession /\ [][NextEndSession]_vars

\* The End Session in progress.
EndSessionCall == pending[1]

\* The goal of the given id changes, in the store or in the facade's state.
GoalChanges(id) ==
    \/ /\ id \in Ids(Views(store).goals)
       /\ ById(Views(store').goals, id) # ById(Views(store).goals, id)
    \/ /\ id \in Ids(mirror.goals)
       /\ ById(mirror'.goals, id) # ById(mirror.goals, id)

\* C23: a goal is modified by End Session only in the loop that follows a
\* session save that returned success, by then the session is in the store
\* and in the facade's state, and the loop reaches each goal of the
\* session's list once; when the save has failed the goals are those the
\* handler started with and no session was added; when the handler returns
\* after a successful save (no goal write rejected) each goal of the list
\* holds in the store one application of the update to the goal the handler
\* started with.
C23_GoalsUpdatedAfterSessionSaved ==
    /\ [](EndSessionCall.pc = "updating" =>
            /\ EndSessionCall.arg.id \in Ids(Views(store).sessions)
            /\ EndSessionCall.arg.id \in Ids(mirror.sessions)
            /\ \A i, j \in 1..Len(EndSessionCall.arg.todo) :
                  EndSessionCall.arg.todo[i] = EndSessionCall.arg.todo[j]
                     => i = j)
    /\ [][\A id \in GoalIds :
             GoalChanges(id) =>
                /\ EndSessionCall.pc = "updating"
                /\ Head(EndSessionCall.arg.todo) = id]_vars
    /\ [][(EndSessionCall.pc = "saving" /\ EndSessionCall'.pc = "idle") =>
             /\ ~last'.ret
             /\ Views(store').goals = EndSessionCall.value
             /\ mirror'.goals = EndSessionCall.value
             /\ Views(store').sessions = Views(store).sessions
             /\ mirror'.sessions = mirror.sessions
             /\ EndSessionCall.arg.id \notin Ids(Views(store').sessions)]_vars
    /\ [][(EndSessionCall.pc = "updating" /\ EndSessionCall'.pc = "idle"
           /\ last'.wok) =>
             LET session == EndSessionCall.arg.session
             IN  \A k \in 1..Len(session.goals) :
                    LET id == session.goals[k]
                        old == ById(EndSessionCall.value, id)
                    IN  ById(Views(store').goals, id) =
                          Stamp(UpdatedGoal(old,
                                    RoundedMean(old.currentAccuracy,
                                                SessionAccuracy(session, id))),
                                StampTime)]_vars

\* End Session that failed to save the session, tried again: the session is
\* saved and both goals of its list were updated by the second attempt.
C23_Witness ==
    /\ last.op = "handleEndSession" /\ last.ret /\ last.wok
    /\ faults = 1
    /\ EndSessionCall.pc = "idle"
    /\ ById(Views(store).sessions, "s1").goals = <<"g1", "g2">>
    /\ \A g \in Records(Views(store).goals) : g.updatedAt = StampTime
    /\ \A g \in Records(last.goals) : g.updatedAt = CallerTime

(***************************************************************************)
(* Properties of persisted sessions.                                       *)
(***************************************************************************)
\* The sessions End Session may build under an id: of one correct or of one
\* incorrect trial.
SessionVariants ==
    {Session(id, OwnerOf(id), <<GoalOfSession(id)>>,
             <<Trial(GoalOfSession(id), r, id)>>) :
        id \in SessionIds, r \in SessionResponses}

\* What the screens do to the sessions, the session calls and the client
\* delete with every outcome of their reads and writes: End Session adds one, the session detail screen deletes
\* one, a client delete cascades, Clear All Data removes all.  No screen
\* calls updateSession.
NextAppendOnly ==
    \/ Mount
    \/ ~mirror.isLoading /\
         (\/ \E c \in ClientInputs :
                Fresh(c.id, "clients") /\ addClient(c, StampTime, {}, {})
          \/ \E id \in Ids(mirror.clients),
                rf \in ReadFaults({"clients", "goals", "sessions"}),
                wf \in Faults({"clients", "goals", "sessions"}) :
                deleteClient(id, rf, wf)
          \/ \E x \in SessionVariants, rf \in ReadFaults({"sessions"}),
                wf \in Faults({"sessions"}) :
                /\ Fresh(x.id, "sessions") /\ x.clientId \in Ids(mirror.clients)
                /\ addSession(x, rf, wf)
          \/ \E id \in Ids(mirror.sessions), rf \in ReadFaults({"sessions"}),
                wf \in Faults({"sessions"}) :
                deleteSession(id, rf, wf)
          \/ \E fails \in BOOLEAN : handleClearData(fails, {}))
    \/ Refresh

SpecAppendOnly == Init /\ [][NextAppendOnly]_vars

\* C24: a session that is persisted before and after a step is the same
\* record after it as before: a persisted session is deleted or kept as it
\* is, never changed.
C24_SessionsNeverAmended ==
    [][\A id \in Ids(Views(store).sessions) \cap Ids(Views(store').sessions) :
          ById(Views(store').sessions, id) = ById(Views(store).sessions, id)
      ]_vars

\* Session s2 added to a store that holds session s1, which stays.
C24_Witness ==
    /\ last.op = "addSession" /\ last.ret /\ last.id = "s2"
    /\ Ids(Views(store).sessions) = {"s1", "s2"}
    /\ ById(Views(store).sessions, "s1").trials[1].response = "incorrect"

(***************************************************************************)
(* The life of a goal: Add Goal, Edit Goal, the status buttons of the goal *)
(* detail screen and sessions.  The text of an input field is the sequence *)
(* of its characters.                                                      *)
(***************************************************************************)
DigitChars == <<"0", "1", "2", "3", "4", "5", "6", "7", "8", "9">>

IsDigit(c) == \E d \in 1..Len(DigitChars) : DigitChars[d] = c

DigitOf(c) == (CHOOSE d \in 1..Len(DigitChars) : DigitChars[d] = c) - 1

RECURSIVE ParseDigits(_, _, _)
\* The value of the digits from position i up to the first other character.
ParseDigits(text, i, acc) ==
    IF i > Len(text) \/ ~IsDigit(text[i]) THEN acc
    ELSE ParseDigits(text, i + 1, acc * Len(DigitChars) + DigitOf(text[i]))

\* parseInt(text) for a decimal text: leading blanks skipped, an optional
\* sign, then the digits up to the first other character; nan when there is
\* no digit at that place.
parseInt(text) ==
    LET blanks == {i \in 1..Len(text) : \A j \in 1..i : text[j] = " "}
        first == Cardinality(blanks) + 1
        signed == first <= Len(text) /\ text[first] \in {"+", "-"}
        start == IF signed THEN first + 1 ELSE first
        isNaN == start > Len(text) \/ ~IsDigit(text[start])
        magnitude == IF isNaN THEN 0 ELSE ParseDigits(text, start, 0)
    IN  [nan |-> isNaN,
         value |-> IF signed /\ text[first] = "-" THEN 0 - magnitude
                   ELSE magnitude]

\* validateForm that only asks for a number.
validateForm_anyNumber(targetAccuracy) == ~parseInt(targetAccuracy).nan

\* validateForm of the Add Goal and Edit Goal screens, for a form whose name
\* and description are filled in.
validateForm(targetAccuracy) ==
    LET accuracy == parseInt(targetAccuracy)
    IN  ~(accuracy.nan \/ accuracy.value < 1 \/ accuracy.value > 100)

\* AddGoalScreen.handleSave
AddGoalScreen_handleSave(id, clientId, targetAccuracy, wf) ==
    IF ~validateForm(targetAccuracy) THEN UNCHANGED vars
    ELSE addGoal(Goal(id, clientId, "active", 0, parseInt(targetAccuracy).value),
                 StampTime, {}, wf)

\* EditGoalScreen.handleSave
EditGoalScreen_handleSave(goalId, targetAccuracy, wf) ==
    /\ ~getGoal(mirror, goalId).null
    /\ IF ~validateForm(targetAccuracy) THEN UNCHANGED vars
       ELSE updateGoal([getGoal(mirror, goalId).value EXCEPT
                          !.targetAccuracy = parseInt(targetAccuracy).value,
                          !.updatedAt = CallerTime],
                       StampTime, {}, wf)

\* What is typed into the target accuracy field: nothing, abc, 0, 1, 100,
\* 101, 80.5 and -5.
TargetTexts ==
    {<<>>, <<"a", "b", "c">>, <<"0">>, <<"1">>, <<"1", "0", "0">>,
     <<"1", "0", "1">>, <<"8", "0", ".", "5">>, <<"-", "5">>}

\* Client c1, loaded, without goals.
InitGoalLife ==
    /\ store = [EmptyStore EXCEPT !["clients"] = JSONstringify(<<Client("c1")>>)]
    /\ mirror = loadData(store, {})
    /\ last = NoCall
    /\ screen = ClosedScreen
    /\ trialsArg = <<>>
    /\ statsRet = NoStats
    /\ faults = 0
    /\ pending = NoPending

\* One goal, g1, and up to two sessions, one operation at a time.
NextGoalLife ==
    \/ /\ pending = NoPending /\ ~screen.open
       /\ \/ \E text \in TargetTexts, wf \in Faults({"goals"}) :
                Fresh("g1", "goals")
                /\ AddGoalScreen_handleSave("g1", "c1", text, wf)
          \/ \E text \in TargetTexts :
                EditGoalScreen_handleSave("g1", text, {})
          \/ \E status \in Statuses : handleStatusChange(1, "g1", status)
          \/ \E p \in RouteParams : openNewSession(p[1], p[2])
    \/ saveRead(1)
    \/ saveWrite(1, {})
    \/ goBack
    \/ \E g \in Ids(getActiveGoalsByClient(mirror, screen.clientId)) :
          toggleGoalSelection(g)
    \/ handleStartSession
    \/ \E r \in SessionResponses : handleRecordTrial(r)
    \/ handleDeleteLastTrial
    \/ \E id \in SessionIds, wf \in Faults({"sessions"}) :
          /\ Fresh(id, "sessions")
          /\ handleEndSession(id, wf, {})

SpecGoalLife == InitGoalLife /\ [][NextGoalLife]_vars

\* C25: in every step the status of a stored goal stays or goes from active
\* to achieved (its currentAccuracy then at least its targetAccuracy), from
\* active to discontinued, or from achieved or discontinued to active; an
\* edit of the goal's fields leaves it.
C25_StatusTransitions ==
    [][\A id \in Ids(Views(store).goals) \cap Ids(Views(store').goals) :
          LET old == ById(Views(store).goals, id)
              new == ById(Views(store').goals, id)
          IN  new.status # old.status =>
                 \/ /\ old.status = "active" /\ new.status = "achieved"
                    /\ new.currentAccuracy >= new.targetAccuracy
                 \/ old.status = "active" /\ new.status = "discontinued"
                 \/ /\ old.status \in {"achieved", "discontinued"}
                    /\ new.status = "active"]_vars

\* C26: every goal, in the store and in the facade's state, has a
\* targetAccuracy in 1..100 and a currentAccuracy in 0..100.
C26_AccuraciesInRange ==
    \A g \in Records(Views(store).goals) \cup Records(mirror.goals) :
       /\ g.targetAccuracy \in 1..100
       /\ g.currentAccuracy \in 0..100

\* A goal added with the text 80.5, taken from 0 to 50 and to 75 by two
\* sessions of correct trials, its target edited to 100, then discontinued.
C26_Witness ==
    /\ Len(Views(store).sessions) = 2
    /\ \A goals \in {Views(store).goals, mirror.goals} :
          \E g \in Records(goals) :
             /\ g.currentAccuracy = 75
             /\ g.targetAccuracy = 100
             /\ g.status = "discontinued"

(***************************************************************************)
(* Properties of a save under every outcome of its read and its write.     *)
(***************************************************************************)
SaveOps ==
    {"addClient", "updateClient", "addGoal", "updateGoal",
     "addSession", "updateSession"}

\* C27: whatever the read and the write of a save do, every record of
\* another id that the persisted collection held before the save is held,
\* unchanged, after it.
C27_SaveKeepsOtherRecords ==
    [][last'.op \in SaveOps =>
         \A r \in Records(store[SavedTo(last'.op)].value) :
            r.id # last'.id =>
               r \in Records(store'[SavedTo(last'.op)].value)]_vars

(***************************************************************************)
(* Properties of saves and reloads that overlap.                           *)
(***************************************************************************)
\* The save in the slot is at its write and holds a document it read before
\* another call wrote the collection: the two calls overlap.
ReadBeforeWriteOf(slot) ==
    /\ pending[slot].pc = "writing"
    /\ pending[slot].op \in SaveOps
    /\ pending[slot].value #
         SavedValue(store, pending[slot].op, pending[slot].arg)

\* C28: when a save that overlapped the save completed before it, of
\* another id on the same collection, completes, both having returned true,
\* the persisted collection holds the entities of both.
C28_NoLostUpdate ==
    [][\A slot \in Slots :
          (/\ ReadBeforeWriteOf(slot)
           /\ pending'[slot].pc = "idle" /\ last'.ret
           /\ last.op \in SaveOps /\ last.ret
           /\ SavedTo(last.op) = pending[slot].key
           /\ last.id # pending[slot].arg.id)
          => LET saved == Records(store'[pending[slot].key].value)
             IN  /\ Stamp(last.arg, StampTime) \in saved
                 /\ Stamp(pending[slot].arg, StampTime) \in saved]_vars

(***************************************************************************)
(* refreshData await by await: loadData sets isLoading, is suspended at    *)
(* its `await Promise.all([...])` of the four reads (pc "reading"), and    *)
(* when they have returned (pc "setting", the call's value holding what    *)
(* was loaded) calls the four setters with the loaded values.              *)
(***************************************************************************)
\* refreshData() up to the await of the reads.
refreshStart(slot) ==
    /\ pending[slot].pc = "idle"
    /\ pending' = [pending EXCEPT ![slot] = Started("refreshData", "", NoArg)]
    /\ mirror' = [mirror EXCEPT !.isLoading = TRUE]
    /\ UNCHANGED <<store, last, screen, trialsArg, statsRet, faults>>

\* The four reads return.
refreshRead(slot) ==
    /\ pending[slot].op = "refreshData" /\ pending[slot].pc = "reading"
    /\ pending' = [pending EXCEPT ![slot] =
           [pending[slot] EXCEPT !.pc = "setting",
                                 !.value = <<loadData(store, {})>>]]
    /\ PendingFrame

\* setClients(loadedClients), setGoals(loadedGoals), setSessions(...),
\* setSettings(...), setIsLoading(false): the call returns.
refreshSet(slot) ==
    /\ pending[slot].op = "refreshData" /\ pending[slot].pc = "setting"
    /\ mirror' = pending[slot].value[1]
    /\ pending' = [pending EXCEPT ![slot] = IdleCall]
    /\ last' = Call("refreshData", "", TRUE, {}, {})
    /\ UNCHANGED <<store, screen, trialsArg, statsRet, faults>>

\* A status change of goal g1 or an update of a client in slot 1, a reload
\* in slot 2.
NextReload ==
    \/ \E c \in ClientIds : handleToggleActive(1, c)
    \/ \E status \in Statuses : handleStatusChange(1, "g1", status)
    \/ pending[1].op # "refreshData" /\ saveRead(1)
    \/ \E wf \in Faults({pending[1].key}) : saveWrite(1, wf)
    \/ refreshStart(2)
    \/ refreshRead(2)
    \/ refreshSet(2)

SpecReload == InitOverlap /\ [][NextReload]_vars

\* C29: when a reload that overlapped a mutation (a call wrote the store
\* after the reload had read it) sets what it loaded, and no call is in
\* progress any more, the clients, goals and sessions of the facade's state
\* are, timestamps aside, the persisted ones.
C29_ReloadKeepsMirrorCurrent ==
    [][\A slot \in Slots :
          (/\ pending[slot].op = "refreshData" /\ pending[slot].pc = "setting"
           /\ pending[slot].value # <<loadData(store, {})>>
           /\ pending'[slot].pc = "idle"
           /\ pending' = NoPending)
          => \A k \in Collections :
                {Unstamped(r) : r \in Records(mirror'[k])}
                  = {Unstamped(r) : r \in Records(Views(store')[k])}]_vars

(***************************************************************************)
(* Properties of an import whose writes may be rejected.                   *)
(***************************************************************************)
\* C30: when importData has returned true, every key present in the parsed
\* document was written: none of their writes was rejected and the store
\* holds the document's value under each.
C30_ImportReportsFailedWrite ==
    [][(last'.op = "importData" /\ last'.ret) =>
         \A k \in STORAGE_KEYS :
            last'.text.value[k].present =>
               /\ k \notin last'.rejected
               /\ store'[k] = JSONstringify(last'.text.value[k].value)]_vars
====
